---- MODULE Spec2Model ----
(***************************************************************************)
(* A model of scripts/extract_batch.py: the PALETTE table, the mask and    *)
(* colour decoders, the icns container parser, the resource extractor and  *)
(* the two-pass collection walker extract_all.                             *)
(*                                                                         *)
(* Byte strings are sequences of 0..255.  Python index i is TLA+ index     *)
(* i+1 (At, Slice).  A PIL image is a record [mode, px] with px[x][y] the  *)
(* pixel at (x, y); Python's None for an image is the record None.         *)
(***************************************************************************)
EXTENDS Integers, Sequences, FiniteSets, TLC

VARIABLES
    palette,     \* the module-level list PALETTE
    op, arg, result,                  \* a decoder call: which, its input, its return value
    p_data, p_pos, p_elements, ppc,   \* parse_icns_container: its locals and position
    source, outdir, walk              \* extract_all: the source tree, the output
                                      \* directories, each walk's locals

vars == <<palette, op, arg, result, p_data, p_pos, p_elements, ppc, source, outdir, walk>>

(***************************************************************************)
(* Program constants                                                       *)
(***************************************************************************)
IconSize == 32
Icl8Len == 1024
IcnLen == 256
IcnMaskOffset == 128
HeaderLen == 8
CubeStep == 51
CubeSide == 6

(***************************************************************************)
(* Python byte-string helpers                                              *)
(***************************************************************************)
Min(a, b) == IF a < b THEN a ELSE b

Max(a, b) == IF a > b THEN a ELSE b

\* data[i]
At(data, i) == data[i + 1]

\* data[a:b] for 0 <= a, clamped to the length as Python slicing is
Slice(data, a, b) == SubSeq(data, a + 1, Min(b, Len(data)))

\* n & (1 << bit) for a byte n
BitAnd1(n, bit) == ((n \div (2 ^ bit)) % 2) * (2 ^ bit)

\* bytes([v]) * n
Solid(v, n) == [i \in 1..n |-> v]

(***************************************************************************)
(* PALETTE (module level, built once at import)                            *)
(***************************************************************************)
Ramp == <<255, 238, 221, 204, 187, 170, 153, 136, 119, 102>>

GrayRamp == <<238, 221, 204, 187, 170, 153, 136, 119, 102, 0>>

\* the cube as it would be counting up from black
Cube_Ascending ==
    [i \in 1..(CubeSide * CubeSide * CubeSide) |->
        LET k == i - 1
            r == k \div (CubeSide * CubeSide)
            g == (k \div CubeSide) % CubeSide
            b == k % CubeSide
        IN  <<r * CubeStep, g * CubeStep, b * CubeStep>>]

\* for r in range(6): for g in range(6): for b in range(6): append
Cube ==
    [i \in 1..(CubeSide * CubeSide * CubeSide) |->
        LET k == i - 1
            r == k \div (CubeSide * CubeSide)
            g == (k \div CubeSide) % CubeSide
            b == k % CubeSide
        IN  <<255 - (r * CubeStep), 255 - (g * CubeStep), 255 - (b * CubeStep)>>]

BuildPalette ==
    Cube
    \o [i \in 1..Len(Ramp) |-> <<Ramp[i], 0, 0>>]
    \o [i \in 1..Len(Ramp) |-> <<0, Ramp[i], 0>>]
    \o [i \in 1..Len(Ramp) |-> <<0, 0, Ramp[i]>>]
    \o [i \in 1..Len(GrayRamp) |-> <<GrayRamp[i], GrayRamp[i], GrayRamp[i]>>]

(***************************************************************************)
(* Images                                                                  *)
(***************************************************************************)
None == [mode |-> "None"]

Coord == 0..(IconSize - 1)

\* Image.new(mode, (32, 32)) with its pixels then assigned: px[x][y]
NewImage(mode, px) == [mode |-> mode, px |-> px]

(***************************************************************************)
(* extract_mask_from_icn, extract_icl8                                     *)
(***************************************************************************)
\* the mask as it would be with the bits of a byte read lowest first
extract_mask_from_icn_LowFirst(icn_data) ==
    IF Len(icn_data) < IcnLen
    THEN None
    ELSE LET mask_data == Slice(icn_data, IcnMaskOffset, IcnLen)
             MaskPixel(x, y) ==
                 LET byte_idx == y * 4 + (x \div 8)
                     bit_idx == x % 8
                 IN  IF BitAnd1(At(mask_data, byte_idx), bit_idx) # 0
                     THEN 255 ELSE 0
         IN  NewImage("L", [x \in Coord |-> [y \in Coord |-> MaskPixel(x, y)]])

\* the mask as it would be with a short record filled up with zero bytes
extract_mask_from_icn_Padded(icn_data) ==
    LET MaskByte(i) == IF IcnMaskOffset + i < Len(icn_data)
                       THEN At(icn_data, IcnMaskOffset + i) ELSE 0
        MaskPixel(x, y) ==
            LET byte_idx == y * 4 + (x \div 8)
                bit_idx == 7 - (x % 8)
            IN  IF BitAnd1(MaskByte(byte_idx), bit_idx) # 0
                THEN 255 ELSE 0
    IN  NewImage("L", [x \in Coord |-> [y \in Coord |-> MaskPixel(x, y)]])

\* the mask as it would be read from the bitmap half of the record
extract_mask_from_icn_FirstHalf(icn_data) ==
    IF Len(icn_data) < IcnLen
    THEN None
    ELSE LET mask_data == Slice(icn_data, 0, IcnMaskOffset)
             MaskPixel(x, y) ==
                 LET byte_idx == y * 4 + (x \div 8)
                     bit_idx == 7 - (x % 8)
                 IN  IF BitAnd1(At(mask_data, byte_idx), bit_idx) # 0
                     THEN 255 ELSE 0
         IN  NewImage("L", [x \in Coord |-> [y \in Coord |-> MaskPixel(x, y)]])

extract_mask_from_icn(icn_data) ==
    IF Len(icn_data) < IcnLen
    THEN None
    ELSE LET mask_data == Slice(icn_data, IcnMaskOffset, IcnLen)
             MaskPixel(x, y) ==
                 LET byte_idx == y * 4 + (x \div 8)
                     bit_idx == 7 - (x % 8)
                 IN  IF BitAnd1(At(mask_data, byte_idx), bit_idx) # 0
                     THEN 255 ELSE 0
         IN  NewImage("L", [x \in Coord |-> [y \in Coord |-> MaskPixel(x, y)]])

\* the decode as it would be with the buffer read column by column
extract_icl8_Transposed(icl8_data, mask) ==
    IF Len(icl8_data) < Icl8Len
    THEN None
    ELSE IF mask # None
         THEN LET P(x, y) ==
                      LET idx == At(icl8_data, x * IconSize + y)
                          rgb == At(palette, idx)
                          a == mask.px[x][y]
                      IN  <<rgb[1], rgb[2], rgb[3], a>>
              IN  NewImage("RGBA", [x \in Coord |-> [y \in Coord |-> P(x, y)]])
         ELSE LET Q(x, y) ==
                      LET idx == At(icl8_data, x * IconSize + y)
                      IN  At(palette, idx)
              IN  NewImage("RGB", [x \in Coord |-> [y \in Coord |-> Q(x, y)]])

extract_icl8(icl8_data, mask) ==
    IF Len(icl8_data) < Icl8Len
    THEN None
    ELSE IF mask # None
         THEN LET P(x, y) ==
                      LET idx == At(icl8_data, y * IconSize + x)
                          rgb == At(palette, idx)
                          a == mask.px[x][y]
                      IN  <<rgb[1], rgb[2], rgb[3], a>>
              IN  NewImage("RGBA", [x \in Coord |-> [y \in Coord |-> P(x, y)]])
         ELSE LET Q(x, y) ==
                      LET idx == At(icl8_data, y * IconSize + x)
                      IN  At(palette, idx)
              IN  NewImage("RGB", [x \in Coord |-> [y \in Coord |-> Q(x, y)]])

(***************************************************************************)
(* parse_icns_container                                                    *)
(***************************************************************************)
T_icns == <<105, 99, 110, 115>>

T_icl8 == <<105, 99, 108, 56>>

T_ICN == <<73, 67, 78, 35>>

T_l8mk == <<108, 56, 109, 107>>

\* elements = {}
EmptyDict == <<>>

\* the assignment as it would be if an earlier entry were kept
DictPut_KeepFirst(d, k, v) ==
    IF k \in DOMAIN d THEN d
    ELSE [q \in (DOMAIN d) \cup {k} |-> IF q = k THEN v ELSE d[q]]

\* elements[k] = v
DictPut(d, k, v) == [q \in (DOMAIN d) \cup {k} |-> IF q = k THEN v ELSE d[q]]

\* k in elements
DictHas(d, k) == k \in DOMAIN d

\* struct.unpack('>I', b)[0] compared without leaving 32-bit arithmetic:
\* the value is hi * 65536 + lo
U32Hi(b) == b[1] * 256 + b[2]

U32Lo(b) == b[3] * 256 + b[4]

\* unpack(b) < n, for 0 <= n
U32Less(b, n) ==
    \/ U32Hi(b) < n \div 65536
    \/ U32Hi(b) = n \div 65536 /\ U32Lo(b) < n % 65536

\* unpack(b) > n, for 0 <= n
U32Greater(b, n) ==
    \/ U32Hi(b) > n \div 65536
    \/ U32Hi(b) = n \div 65536 /\ U32Lo(b) > n % 65536

\* unpack(b); the loop body reads it only when it is at most the buffer length
U32(b) == U32Hi(b) * 65536 + U32Lo(b)

\* the start as it would be with the header not skipped
ParseStartPos_NoSkip(icns_data) == 0

\* pos after the optional header
ParseStartPos(icns_data) ==
    IF Len(icns_data) >= HeaderLen /\ Slice(icns_data, 0, 4) = T_icns
    THEN HeaderLen ELSE 0

\* while pos < len(icns_data) - 8
ParseCond(icns_data, pos) == pos < Len(icns_data) - HeaderLen

\* the test as it would be without the lower limit on the length
ParseBreaks_NoLower(icns_data, pos) ==
    LET lenb == Slice(icns_data, pos + 4, pos + 8)
    IN  U32Greater(lenb, Len(icns_data) - pos)

\* the test as it would be with the length compared to the whole buffer
ParseBreaks_WholeLen(icns_data, pos) ==
    LET lenb == Slice(icns_data, pos + 4, pos + 8)
    IN  U32Less(lenb, HeaderLen) \/ U32Greater(lenb, Len(icns_data))

\* if elen < 8 or elen > len(icns_data) - pos: break
ParseBreaks(icns_data, pos) ==
    LET lenb == Slice(icns_data, pos + 4, pos + 8)
    IN  U32Less(lenb, HeaderLen) \/ U32Greater(lenb, Len(icns_data) - pos)

\* one pass through the loop body that does not break
ParseBody(icns_data, st) ==
    LET pos == st.pos
        etype == Slice(icns_data, pos, pos + 4)
        elen == U32(Slice(icns_data, pos + 4, pos + 8))
    IN  [pos |-> pos + elen,
         elements |-> DictPut(st.elements, etype,
                              Slice(icns_data, pos + 8, pos + elen))]

RECURSIVE ParseLoop(_, _)
ParseLoop(icns_data, st) ==
    IF ParseCond(icns_data, st.pos) /\ ~ParseBreaks(icns_data, st.pos)
    THEN ParseLoop(icns_data, ParseBody(icns_data, st))
    ELSE st.elements

parse_icns_container(icns_data) ==
    ParseLoop(icns_data,
              [pos |-> ParseStartPos(icns_data), elements |-> EmptyDict])

(***************************************************************************)
(* extract_from_icns                                                       *)
(***************************************************************************)
\* the l8mk plane: pixels[x, y] = l8mk_data[y * 32 + x]
L8mkMask(l8mk_data) ==
    LET P(x, y) == At(l8mk_data, y * IconSize + x)
    IN  NewImage("L", [x \in Coord |-> [y \in Coord |-> P(x, y)]])

\* the choice as it would be with the 1-bit mask tried first
IcnsMask_IcnFirst(elements) ==
    IF DictHas(elements, T_ICN) /\ Len(elements[T_ICN]) >= IcnLen
    THEN extract_mask_from_icn(elements[T_ICN])
    ELSE IF DictHas(elements, T_l8mk) /\ Len(elements[T_l8mk]) >= Icl8Len
         THEN L8mkMask(elements[T_l8mk])
         ELSE None

IcnsMask(elements) ==
    IF DictHas(elements, T_l8mk) /\ Len(elements[T_l8mk]) >= Icl8Len
    THEN L8mkMask(elements[T_l8mk])
    ELSE IF DictHas(elements, T_ICN) /\ Len(elements[T_ICN]) > 0
         THEN extract_mask_from_icn(elements[T_ICN])
         ELSE None

extract_from_icns(icns_data) ==
    LET elements == parse_icns_container(icns_data)
    IN  IF ~DictHas(elements, T_icl8) \/ Len(elements[T_icl8]) < Icl8Len
        THEN None
        ELSE extract_icl8(elements[T_icl8], IcnsMask(elements))


(***************************************************************************)
(* Resource forks.  rsrcfork.ResourceFile is a library: a fork is modelled *)
(* by what the script asks of it.  size = 0 is the empty stream,           *)
(* malformed makes ResourceFile(f) raise, and each of icl8, icn, icns is   *)
(* the sequence of that type's resources in the order `for res_id in       *)
(* rf[type]` yields them, each [id, data, err] with err making .data raise.*)
(***************************************************************************)
\* icn_masks: res_id -> data of every ICN# resource whose data can be read
IcnMasks(fork) ==
    LET ok == {i \in 1..Len(fork.icn) : ~fork.icn[i].err}
    IN  [id \in {fork.icn[i].id : i \in ok} |->
            fork.icn[CHOOSE i \in ok : fork.icn[i].id = id].data]

\* the body of `for res_id in rf[b'icl8']` for one resource: an image, or
\* None when the loop goes on to the next id
\* the body as it would be with whichever mask there is, of any id
DirectOne_AnyMask(res, icn_masks) ==
    IF res.err \/ Len(res.data) < Icl8Len
    THEN None
    ELSE LET mask == IF DOMAIN icn_masks # {}
                     THEN extract_mask_from_icn(icn_masks[CHOOSE id \in DOMAIN icn_masks : TRUE])
                     ELSE None
         IN  extract_icl8(res.data, mask)

DirectOne(res, icn_masks) ==
    IF res.err \/ Len(res.data) < Icl8Len
    THEN None
    ELSE LET mask == IF res.id \in DOMAIN icn_masks
                     THEN extract_mask_from_icn(icn_masks[res.id])
                     ELSE None
         IN  extract_icl8(res.data, mask)

RECURSIVE DirectLoop(_, _, _)
DirectLoop(recs, i, icn_masks) ==
    IF i > Len(recs)
    THEN None
    ELSE LET img == DirectOne(recs[i], icn_masks)
         IN  IF img # None THEN img ELSE DirectLoop(recs, i + 1, icn_masks)

\* the body of `for res_id in rf[b'icns']` for one resource
IcnsOne(res) == IF res.err THEN None ELSE extract_from_icns(res.data)

\* the loop as it would be if it gave up after the first container
IcnsLoop_FirstOnly(recs, i) ==
    IF i > Len(recs) THEN None ELSE IcnsOne(recs[i])

RECURSIVE IcnsLoop(_, _)
IcnsLoop(recs, i) ==
    IF i > Len(recs)
    THEN None
    ELSE LET img == IcnsOne(recs[i])
         IN  IF img # None THEN img ELSE IcnsLoop(recs, i + 1)

\* the function as it would be with the container path under an elif
extract_from_rsrc_Exclusive(fork) ==
    IF fork.size = 0 \/ fork.malformed
    THEN None
    ELSE IF Len(fork.icl8) > 0
         THEN DirectLoop(fork.icl8, 1, IcnMasks(fork))
         ELSE IF Len(fork.icns) > 0
              THEN IcnsLoop(fork.icns, 1)
              ELSE None

extract_from_rsrc(fork) ==
    IF fork.size = 0 \/ fork.malformed
    THEN None
    ELSE LET direct == IF Len(fork.icl8) > 0
                       THEN DirectLoop(fork.icl8, 1, IcnMasks(fork))
                       ELSE None
         IN  IF direct # None
             THEN direct
             ELSE IF Len(fork.icns) > 0
                  THEN IcnsLoop(fork.icns, 1)
                  ELSE None

(***************************************************************************)
(* Strings are sequences of one-character strings.                         *)
(***************************************************************************)
LowerLetters ==
    <<"a", "b", "c", "d", "e", "f", "g", "h", "i", "j", "k", "l", "m",
      "n", "o", "p", "q", "r", "s", "t", "u", "v", "w", "x", "y", "z">>

UpperLetters ==
    <<"A", "B", "C", "D", "E", "F", "G", "H", "I", "J", "K", "L", "M",
      "N", "O", "P", "Q", "R", "S", "T", "U", "V", "W", "X", "Y", "Z">>

DigitChars == <<"0", "1", "2", "3", "4", "5", "6", "7", "8", "9">>

Range(s) == {s[i] : i \in DOMAIN s}

\* c.isalnum()
IsAlnum(c) == c \in Range(LowerLetters) \cup Range(UpperLetters) \cup Range(DigitChars)

\* c.lower()
LowerChar(c) ==
    IF c \in Range(UpperLetters)
    THEN LowerLetters[CHOOSE i \in DOMAIN UpperLetters : UpperLetters[i] = c]
    ELSE c

\* s.lower()
Lower(s) == [i \in DOMAIN s |-> LowerChar(s[i])]

\* s.startswith(p)
StartsWith(s, p) == Len(s) >= Len(p) /\ SubSeq(s, 1, Len(p)) = p

\* p in s
Contains(s, p) == \E i \in 1..(Len(s) - Len(p) + 1) : SubSeq(s, i, i + Len(p) - 1) = p

\* s.replace(old, new): every non-overlapping occurrence, leftmost first
RECURSIVE Replace(_, _, _)
Replace(s, old, new) ==
    IF Len(s) < Len(old)
    THEN s
    ELSE IF SubSeq(s, 1, Len(old)) = old
         THEN new \o Replace(SubSeq(s, Len(old) + 1, Len(s)), old, new)
         ELSE <<s[1]>> \o Replace(SubSeq(s, 2, Len(s)), old, new)

\* while old in s: s = s.replace(old, new)
RECURSIVE ReplaceWhile(_, _, _)
ReplaceWhile(s, old, new) ==
    IF Contains(s, old) THEN ReplaceWhile(Replace(s, old, new), old, new) ELSE s

\* s.strip(chars)
RECURSIVE LStrip(_, _)
LStrip(s, chars) ==
    IF Len(s) > 0 /\ s[1] \in chars THEN LStrip(SubSeq(s, 2, Len(s)), chars) ELSE s

RECURSIVE RStrip(_, _)
RStrip(s, chars) ==
    IF Len(s) > 0 /\ s[Len(s)] \in chars
    THEN RStrip(SubSeq(s, 1, Len(s) - 1), chars) ELSE s

Strip(s, chars) == RStrip(LStrip(s, chars), chars)

\* str(n) for n >= 0
RECURSIVE Str(_)
Str(n) == IF n < 10 THEN <<DigitChars[n + 1]>> ELSE Str(n \div 10) \o <<DigitChars[(n % 10) + 1]>>

\* the function as it would be without the final strip
sanitize_name_NoStrip(name) ==
    LET safe0 == [i \in DOMAIN name |->
                    IF IsAlnum(name[i]) \/ name[i] \in {"-", "_", " "}
                    THEN name[i] ELSE "-"]
        safe1 == ReplaceWhile(safe0, <<"-", "-">>, <<"-">>)
    IN  ReplaceWhile(safe1, <<" ", " ">>, <<" ">>)

\* the function as it would be with each replace done once, not in a loop
sanitize_name_CollapseOnce(name) ==
    LET safe0 == [i \in DOMAIN name |->
                    IF IsAlnum(name[i]) \/ name[i] \in {"-", "_", " "}
                    THEN name[i] ELSE "-"]
        safe1 == Replace(safe0, <<"-", "-">>, <<"-">>)
        safe2 == Replace(safe1, <<" ", " ">>, <<" ">>)
    IN  Strip(safe2, {"-", " "})

sanitize_name(name) ==
    LET safe0 == [i \in DOMAIN name |->
                    IF IsAlnum(name[i]) \/ name[i] \in {"-", "_", " "}
                    THEN name[i] ELSE "-"]
        safe1 == ReplaceWhile(safe0, <<"-", "-">>, <<"-">>)
        safe2 == ReplaceWhile(safe1, <<" ", " ">>, <<" ">>)
    IN  Strip(safe2, {"-", " "})

(***************************************************************************)
(* The filesystem.                                                         *)
(*                                                                         *)
(* A source tree is a set of top-level entries [name, isdir, entries];     *)
(* entries is everything rglob finds below a collection directory, each    *)
(* [path, name, parent, isdir, resolved, fork]: path names the entry,      *)
(* name is its last component, parent the name of its immediate parent     *)
(* folder, resolved is Path.resolve() (the path of the target for a        *)
(* symbolic link, path itself otherwise) and fork is the resource stream   *)
(* str(path) + "/..namedfork/rsrc" reaches: an index into Forks, or        *)
(* NoFork when os.path.exists is false.  An output directory is a function *)
(* from the file names in it to their contents.  The content of a saved    *)
(* file is kept as [mode |-> "png", fork |-> k], the raster                *)
(* extract_from_rsrc returned for fork k: Raster gives its pixels.         *)
(***************************************************************************)
NoFork == 0

IconCR == <<"I", "c", "o", "n", "\r">>

Dot == <<".">>

PngExt == <<".", "p", "n", "g">>

\* the content of a file that was in the output directory before the run
Existing == [mode |-> "existing"]

\* dest.exists()
Exists(dir, filename) == filename \in DOMAIN dir

\* img.save(dest)
Save(dir, filename, img) ==
    [f \in (DOMAIN dir) \cup {filename} |-> IF f = filename THEN img ELSE dir[f]]

\* f"{collection_name}--{icon_name}.png"
BaseName(collection_name, icon_name) ==
    collection_name \o <<"-", "-">> \o icon_name \o PngExt

\* f"{collection_name}--{icon_name}-{i}.png"
SuffixName(collection_name, icon_name, i) ==
    collection_name \o <<"-", "-">> \o icon_name \o <<"-">> \o Str(i) \o PngExt

\* while dest.exists(): filename = ...-{i}.png; i += 1
RECURSIVE SuffixLoop(_, _, _, _)
SuffixLoop(dir, collection_name, icon_name, i) ==
    IF Exists(dir, SuffixName(collection_name, icon_name, i))
    THEN SuffixLoop(dir, collection_name, icon_name, i + 1)
    ELSE SuffixName(collection_name, icon_name, i)

\* the destination as it would be with no existence check
ResolveDest_NoCheck(dir, collection_name, icon_name) ==
    BaseName(collection_name, icon_name)

\* the destination as it would be with the suffix counted from 2
ResolveDest_From2(dir, collection_name, icon_name) ==
    IF Exists(dir, BaseName(collection_name, icon_name))
    THEN SuffixLoop(dir, collection_name, icon_name, 2)
    ELSE BaseName(collection_name, icon_name)

\* lines 312-321 and 349-358: the destination for an item
ResolveDest(dir, collection_name, icon_name) ==
    IF Exists(dir, BaseName(collection_name, icon_name))
    THEN SuffixLoop(dir, collection_name, icon_name, 1)
    ELSE BaseName(collection_name, icon_name)

\* the name as it would be with 'icon' and 'icons' compared as written
Pass1IconName_CaseSensitive(e, collection_name) ==
    LET icon_name == sanitize_name(e.parent)
    IN  IF icon_name = <<>> \/ icon_name \in {<<"i", "c", "o", "n">>, <<"i", "c", "o", "n", "s">>}
        THEN collection_name
        ELSE icon_name

\* lines 308-310
Pass1IconName(e, collection_name) ==
    LET icon_name == sanitize_name(e.parent)
    IN  IF icon_name = <<>> \/ Lower(icon_name) \in {<<"i", "c", "o", "n">>, <<"i", "c", "o", "n", "s">>}
        THEN collection_name
        ELSE icon_name

\* lines 345-347
Pass2IconName(e) ==
    LET icon_name == sanitize_name(e.name)
    IN  IF icon_name = <<>> THEN <<"u", "n", "n", "a", "m", "e", "d">> ELSE icon_name

\* the order of Python's str comparison on the characters used here
CodeOrder ==
    <<"\r", " ", "!", "-", ".">> \o DigitChars \o UpperLetters \o <<"_">> \o LowerLetters

Code(c) == CHOOSE i \in DOMAIN CodeOrder : CodeOrder[i] = c

\* a < b for strings
RECURSIVE StrLess(_, _)
StrLess(a, b) ==
    IF Len(b) = 0 THEN FALSE
    ELSE IF Len(a) = 0 THEN TRUE
    ELSE IF a[1] # b[1] THEN Code(a[1]) < Code(b[1])
    ELSE StrLess(Tail(a), Tail(b))

\* sorted(source_dir.iterdir())
RECURSIVE Sorted(_)
Sorted(S) ==
    IF S = {} THEN <<>>
    ELSE LET m == CHOOSE x \in S : \A y \in S \ {x} : StrLess(x.name, y.name)
         IN  <<m>> \o Sorted(S \ {m})

(***************************************************************************)
(* Sample data: byte strings, containers and resource forks                *)
(***************************************************************************)
\* struct.pack('>I', n)
BE32(n) == <<n \div 16777216, (n \div 65536) % 256, (n \div 256) % 256, n % 256>>

\* an element with a correct declared length
Element(etype, payload) == etype \o BE32(Len(payload) + HeaderLen) \o payload

RECURSIVE Concat(_)
Concat(seqs) == IF seqs = <<>> THEN <<>> ELSE Head(seqs) \o Concat(Tail(seqs))

\* 'icns' + total length + the elements
Container(elems) ==
    T_icns \o BE32(Len(Concat(elems)) + HeaderLen) \o Concat(elems)

\* a colour raster that uses every palette index
Icl8Byte(k, i) == ((i - 1) * k) % 256

Icl8Sample(k) == [i \in 1..Icl8Len |-> Icl8Byte(k, i)]

\* an ICN# record: 128 bytes of bitmap, then 128 bytes of mask
IcnByte(k, i) == IF i <= IcnMaskOffset THEN 85 ELSE ((i - IcnMaskOffset) * k + 128) % 256

IcnSample(k) == [i \in 1..IcnLen |-> IcnByte(k, i)]

\* an l8mk record
L8mkByte(k, i) == (i * k + 3) % 256

L8mkSample(k) == [i \in 1..Icl8Len |-> L8mkByte(k, i)]

Res(id, data) == [id |-> id, data |-> data, err |-> FALSE]

ForkOf(icl8, icn, icns) ==
    [size |-> 1, malformed |-> FALSE, icl8 |-> icl8, icn |-> icn, icns |-> icns]

\* a record whose .data raises
Unreadable(id) == [id |-> id, data |-> <<>>, err |-> TRUE]

\* a container with colour raster k and an 8-bit mask
GoodContainer(k) ==
    Container(<<Element(T_icl8, Icl8Sample(k)), Element(T_l8mk, L8mkSample(1))>>)

\* a container with a mask and no colour raster
NoRasterContainer == Container(<<Element(T_l8mk, L8mkSample(1))>>)

\* a container whose colour raster is one byte short
ShortRasterContainer == Container(<<Element(T_icl8, Solid(5, Icl8Len - 1))>>)

\* a container whose first element declares 0xFFFFFFFF bytes
CorruptContainer == Container(<<T_icl8 \o <<255, 255, 255, 255>> \o Icl8Sample(1)>>)

Forks ==
    << \* 1: a colour raster with its same-id mask
       ForkOf(<<Res(128, Icl8Sample(1))>>, <<Res(128, IcnSample(7))>>, <<>>),
       \* 2: a colour raster one byte short
       ForkOf(<<Res(128, Solid(5, Icl8Len - 1))>>, <<>>, <<>>),
       \* 3: a zero-byte stream
       [size |-> 0, malformed |-> FALSE, icl8 |-> <<>>, icn |-> <<>>, icns |-> <<>>],
       \* 4: not a resource file
       [size |-> 1, malformed |-> TRUE, icl8 |-> <<>>, icn |-> <<>>, icns |-> <<>>],
       \* 5: another mask for the same raster
       ForkOf(<<Res(128, Icl8Sample(1))>>, <<Res(128, IcnSample(1))>>, <<>>),
       \* 6: a raster with no mask
       ForkOf(<<Res(129, Icl8Sample(3))>>, <<>>, <<>>),
       \* 7: a container alone
       ForkOf(<<>>, <<>>, <<Res(128, GoodContainer(3))>>),
       \* 8: a corrupt container alone
       ForkOf(<<>>, <<>>, <<Res(128, CorruptContainer)>>),
       \* 9: a colour raster that cannot be read
       ForkOf(<<Unreadable(128)>>, <<>>, <<>>),
       \* 10: a resource file with no icon types
       ForkOf(<<>>, <<>>, <<>>),
       \* 11: a short raster, then two rasters of which the second has a mask
       ForkOf(<<Res(128, Solid(5, Icl8Len - 1)), Res(129, Icl8Sample(3)), Res(130, Icl8Sample(1))>>,
              <<Res(128, IcnSample(7)), Res(130, IcnSample(1))>>, <<>>),
       \* 12: an unreadable raster, then a raster with its mask
       ForkOf(<<Unreadable(128), Res(129, Icl8Sample(1))>>, <<Res(129, IcnSample(7))>>, <<>>),
       \* 13: a raster whose same-id mask record is one byte short
       ForkOf(<<Res(128, Icl8Sample(1))>>, <<Res(128, Solid(255, IcnLen - 1))>>, <<>>),
       \* 14: a short direct raster beside a container
       ForkOf(<<Res(128, Solid(5, Icl8Len - 1))>>, <<>>, <<Res(128, GoodContainer(3))>>),
       \* 15: a direct raster beside a container with another raster
       ForkOf(<<Res(128, Icl8Sample(1))>>, <<>>, <<Res(128, GoodContainer(3))>>),
       \* 16: two containers without a usable raster, then one with
       ForkOf(<<>>, <<>>, <<Res(128, NoRasterContainer), Res(129, ShortRasterContainer),
                            Res(130, GoodContainer(1))>>),
       \* 17: containers of which none has a usable raster
       ForkOf(<<>>, <<>>, <<Res(128, NoRasterContainer), Res(129, ShortRasterContainer),
                            Res(130, CorruptContainer), Unreadable(131)>>),
       \* 18: a raster whose same-id mask record cannot be read
       ForkOf(<<Res(128, Icl8Sample(1))>>, <<Unreadable(128)>>, <<>>) >>

(***************************************************************************)
(* extract_all                                                             *)
(***************************************************************************)
Walkers == {1, 2}

\* the output directory of walk w
Dir(w) == outdir[walk[w].out]

NoItem == [path |-> 0]

NewWalk(pc, out) ==
    [pc |-> pc, out |-> out, colls |-> <<>>, cur |-> {}, dir |-> <<>>,
     collection_name |-> <<>>,
     collection_count |-> 0, processed_paths |-> {}, iter |-> {}, item |-> NoItem,
     icon_name |-> <<>>, dest |-> <<>>, extracted |-> 0, skipped |-> 0,
     ret |-> -1, log |-> {}]

Others == <<palette, op, arg, result, p_data, p_pos, p_elements, ppc>>

\* lines 275-282
Start(w) ==
    /\ walk[w].pc = "start"
    /\ walk' = [walk EXCEPT ![w].pc = "coll",
                            ![w].colls = Sorted(source),
                            ![w].extracted = 0,
                            ![w].skipped = 0]
    /\ UNCHANGED <<source, outdir, Others>>

\* lines 285-289: not a directory, or hidden
SkipTop(w) ==
    /\ walk[w].pc = "coll"
    /\ walk[w].colls # <<>>
    /\ LET collection_dir == Head(walk[w].colls)
       IN  ~collection_dir.isdir \/ StartsWith(collection_dir.name, Dot)
    /\ walk' = [walk EXCEPT ![w].colls = Tail(@)]
    /\ UNCHANGED <<source, outdir, Others>>

\* lines 291-300
EnterCollection(w) ==
    /\ walk[w].pc = "coll"
    /\ walk[w].colls # <<>>
    /\ LET collection_dir == Head(walk[w].colls)
       IN  /\ collection_dir.isdir
           /\ ~StartsWith(collection_dir.name, Dot)
           /\ walk' = [walk EXCEPT
                  ![w].pc = "pass1",
                  ![w].colls = Tail(@),
                  ![w].cur = collection_dir.entries,
                  ![w].dir = collection_dir.name,
                  ![w].collection_name = sanitize_name(collection_dir.name),
                  ![w].collection_count = 0,
                  ![w].processed_paths = {},
                  ![w].iter = {e \in collection_dir.entries : e.name = IconCR}]
    /\ UNCHANGED <<source, outdir, Others>>

\* lines 371-376
Finish(w) ==
    /\ walk[w].pc = "coll"
    /\ walk[w].colls = <<>>
    /\ walk' = [walk EXCEPT ![w].pc = "done", ![w].ret = walk[w].extracted]
    /\ UNCHANGED <<source, outdir, Others>>

\* lines 300-305: a marker file with no resource stream
Pass1Skip(w) ==
    /\ walk[w].pc = "pass1"
    /\ \E icon_file \in walk[w].iter :
          /\ icon_file.fork = NoFork
          /\ walk' = [walk EXCEPT
                 ![w].iter = @ \ {icon_file},
                 ![w].processed_paths = @ \cup {icon_file.resolved}]
    /\ UNCHANGED <<source, outdir, Others>>

\* lines 300-321
Pass1Resolve(w) ==
    /\ walk[w].pc = "pass1"
    /\ \E icon_file \in walk[w].iter :
          /\ icon_file.fork # NoFork
          /\ \E icon_name \in {Pass1IconName(icon_file, walk[w].collection_name)} :
                 walk' = [walk EXCEPT
                     ![w].pc = "save1",
                     ![w].iter = @ \ {icon_file},
                     ![w].processed_paths = @ \cup {icon_file.resolved},
                     ![w].item = icon_file,
                     ![w].icon_name = icon_name,
                     ![w].dest = ResolveDest(Dir(w), walk[w].collection_name, icon_name)]
    /\ UNCHANGED <<source, outdir, Others>>

\* what a call of extract_from_rsrc leaves in the log
LogEntry(w, pass, img) ==
    [path |-> walk[w].item.path, resolved |-> walk[w].item.resolved, pass |-> pass,
     dir |-> walk[w].dir, collection_name |-> walk[w].collection_name, icon_name |-> walk[w].icon_name,
     dest |-> walk[w].dest, fork |-> walk[w].item.fork, ok |-> img # None]

\* the raster a saved file holds
Raster(content) == extract_from_rsrc(Forks[content.fork])

\* the step as it would be with a failed extraction ending the walk
ExtractAndSave_Abort(w, pass, next) ==
    LET img == extract_from_rsrc(Forks[walk[w].item.fork])
    IN  IF img # None
        THEN /\ outdir' = [outdir EXCEPT ![walk[w].out] =
                              Save(@, walk[w].dest,
                                   [mode |-> "png", fork |-> walk[w].item.fork])]
             /\ walk' = [walk EXCEPT ![w].pc = next,
                                     ![w].extracted = @ + 1,
                                     ![w].collection_count = @ + 1,
                                     ![w].log = @ \cup {LogEntry(w, pass, img)}]
        ELSE /\ outdir' = outdir
             /\ walk' = [walk EXCEPT ![w].pc = "aborted",
                                     ![w].log = @ \cup {LogEntry(w, pass, img)}]

\* the step as it would be with the file written before the result is tested
ExtractAndSave_SaveFirst(w, pass, next) ==
    LET img == extract_from_rsrc(Forks[walk[w].item.fork])
    IN  /\ outdir' = [outdir EXCEPT ![walk[w].out] =
                          Save(@, walk[w].dest,
                               [mode |-> "png", fork |-> walk[w].item.fork])]
        /\ IF img # None
           THEN walk' = [walk EXCEPT ![w].pc = next,
                                     ![w].extracted = @ + 1,
                                     ![w].collection_count = @ + 1,
                                     ![w].log = @ \cup {LogEntry(w, pass, img)}]
           ELSE walk' = [walk EXCEPT ![w].pc = next,
                                     ![w].skipped = @ + 1,
                                     ![w].log = @ \cup {LogEntry(w, pass, img)}]

\* the step as it would be with a failed extraction left uncounted
ExtractAndSave_NoSkip(w, pass, next) ==
    LET img == extract_from_rsrc(Forks[walk[w].item.fork])
    IN  IF img # None
        THEN /\ outdir' = [outdir EXCEPT ![walk[w].out] =
                              Save(@, walk[w].dest,
                                   [mode |-> "png", fork |-> walk[w].item.fork])]
             /\ walk' = [walk EXCEPT ![w].pc = next,
                                     ![w].extracted = @ + 1,
                                     ![w].collection_count = @ + 1,
                                     ![w].log = @ \cup {LogEntry(w, pass, img)}]
        ELSE /\ outdir' = outdir
             /\ walk' = [walk EXCEPT ![w].pc = next,
                                     ![w].log = @ \cup {LogEntry(w, pass, img)}]

\* the step as it would be with the path of a failed item taken out of
\* processed_paths again
ExtractAndSave_ForgetFailed(w, pass, next) ==
    LET img == extract_from_rsrc(Forks[walk[w].item.fork])
    IN  IF img # None
        THEN /\ outdir' = [outdir EXCEPT ![walk[w].out] =
                              Save(@, walk[w].dest,
                                   [mode |-> "png", fork |-> walk[w].item.fork])]
             /\ walk' = [walk EXCEPT ![w].pc = next,
                                     ![w].extracted = @ + 1,
                                     ![w].collection_count = @ + 1,
                                     ![w].log = @ \cup {LogEntry(w, pass, img)}]
        ELSE /\ outdir' = outdir
             /\ walk' = [walk EXCEPT ![w].pc = next,
                                     ![w].skipped = @ + 1,
                                     ![w].processed_paths = @ \ {walk[w].item.resolved},
                                     ![w].log = @ \cup {LogEntry(w, pass, img)}]

\* lines 323-329 and 360-366
ExtractAndSave(w, pass, next) ==
    LET img == extract_from_rsrc(Forks[walk[w].item.fork])
    IN  IF img # None
        THEN /\ outdir' = [outdir EXCEPT ![walk[w].out] =
                              Save(@, walk[w].dest,
                                   [mode |-> "png", fork |-> walk[w].item.fork])]
             /\ walk' = [walk EXCEPT ![w].pc = next,
                                     ![w].extracted = @ + 1,
                                     ![w].collection_count = @ + 1,
                                     ![w].log = @ \cup {LogEntry(w, pass, img)}]
        ELSE /\ outdir' = outdir
             /\ walk' = [walk EXCEPT ![w].pc = next,
                                     ![w].skipped = @ + 1,
                                     ![w].log = @ \cup {LogEntry(w, pass, img)}]

\* lines 323-329
Pass1Save(w) ==
    /\ walk[w].pc = "save1"
    /\ ExtractAndSave(w, 1, "pass1")
    /\ UNCHANGED <<source, Others>>

\* the flat pass as it would be if it began while markers are left
Pass1End_Early(w) ==
    /\ walk[w].pc = "pass1"
    /\ walk' = [walk EXCEPT ![w].pc = "pass2", ![w].iter = walk[w].cur]
    /\ UNCHANGED <<source, outdir, Others>>

\* lines 331-333: the structured pass is over, the flat pass begins
Pass1End(w) ==
    /\ walk[w].pc = "pass1"
    /\ walk[w].iter = {}
    /\ walk' = [walk EXCEPT ![w].pc = "pass2", ![w].iter = walk[w].cur]
    /\ UNCHANGED <<source, outdir, Others>>

\* the lookup as it would be with the item's path left unresolved
Consumed_Unresolved(item, processed_paths) == item.path \in processed_paths

\* line 338: item.resolve() in processed_paths
Consumed(item, processed_paths) == item.resolved \in processed_paths

\* lines 333-343: a directory, a hidden file, a consumed path, no stream
Pass2Skip(w) ==
    /\ walk[w].pc = "pass2"
    /\ \E item \in walk[w].iter :
          /\ \/ item.isdir
             \/ StartsWith(item.name, Dot)
             \/ Consumed(item, walk[w].processed_paths)
             \/ item.fork = NoFork
          /\ walk' = [walk EXCEPT ![w].iter = @ \ {item}]
    /\ UNCHANGED <<source, outdir, Others>>

\* lines 333-358
Pass2Resolve(w) ==
    /\ walk[w].pc = "pass2"
    /\ \E item \in walk[w].iter :
          /\ ~item.isdir
          /\ ~StartsWith(item.name, Dot)
          /\ ~Consumed(item, walk[w].processed_paths)
          /\ item.fork # NoFork
          /\ \E icon_name \in {Pass2IconName(item)} :
                 walk' = [walk EXCEPT
                     ![w].pc = "save2",
                     ![w].iter = @ \ {item},
                     ![w].item = item,
                     ![w].icon_name = icon_name,
                     ![w].dest = ResolveDest(Dir(w), walk[w].collection_name, icon_name)]
    /\ UNCHANGED <<source, outdir, Others>>

\* lines 360-366
Pass2Save(w) ==
    /\ walk[w].pc = "save2"
    /\ ExtractAndSave(w, 2, "pass2")
    /\ UNCHANGED <<source, Others>>

\* lines 368-369: the collection is done
Pass2End(w) ==
    /\ walk[w].pc = "pass2"
    /\ walk[w].iter = {}
    /\ walk' = [walk EXCEPT ![w].pc = "coll"]
    /\ UNCHANGED <<source, outdir, Others>>

(***************************************************************************)
(* Source trees and output directories the walk is started on              *)
(***************************************************************************)
MaxEntries == 2
MaxSuffix == 1

Ent(path, name, parent, isdir, resolved, fork) ==
    [path |-> path, name |-> name, parent |-> parent, isdir |-> isdir,
     resolved |-> resolved, fork |-> fork]

S_bar == <<"b", "a", "r">>

S_foo == <<"f", "o", "o">>

\* what a collection directory may hold
Universe ==
    { Ent(1, IconCR, S_bar, FALSE, 1, 1),                       \* bar/Icon\r
      Ent(2, IconCR, <<"I", "c", "o", "n", "s">>, FALSE, 2, 6), \* Icons/Icon\r
      Ent(3, S_bar, <<"x">>, FALSE, 3, 6),                      \* x/bar
      Ent(4, <<"b", "!", "r">>, <<"x">>, FALSE, 4, 6),          \* x/b!r
      Ent(5, <<".", "x">>, <<"x">>, FALSE, 5, 6),               \* x/.x, hidden
      Ent(6, S_bar, <<"y">>, TRUE, 6, NoFork),                  \* y/bar/, a folder
      Ent(7, <<"l", "n", "k">>, <<"x">>, FALSE, 1, 1),          \* x/lnk -> bar/Icon\r
      Ent(8, <<"!">>, <<"x">>, FALSE, 8, 6),                    \* x/!
      Ent(9, IconCR, S_bar, FALSE, 9, 3),                       \* z/bar/Icon\r, empty stream
      Ent(10, IconCR, <<"!">>, FALSE, 10, NoFork),              \* !/Icon\r, no stream
      Ent(11, S_bar, <<"y">>, FALSE, 3, 6),                     \* y/bar -> x/bar
      Ent(12, <<"b", "-", "r">>, <<"x">>, FALSE, 12, 6),        \* x/b-r
      Ent(15, <<"s", "h">>, <<"x">>, FALSE, 15, 2) }            \* x/sh, too short

TopDir(name, entries) == [name |-> name, isdir |-> TRUE, entries |-> entries]

TopFile(name) == [name |-> name, isdir |-> FALSE, entries |-> {}]

\* the source root: a collection holding S alone, or beside a hidden folder
\* and a plain file, or beside a second collection
Layouts(S) ==
    { {TopDir(S_foo, S)},
      {TopDir(<<"!">>, S),
       TopDir(<<".", "h">>, {Ent(13, S_bar, <<".", "h">>, FALSE, 13, 6)}),
       TopFile(<<"z", "z">>)},
      {TopDir(S_foo, S),
       TopDir(<<"f", "o", "o", "!">>, {Ent(14, IconCR, S_bar, FALSE, 14, 6)})} }

GeneralSources ==
    UNION { Layouts(S) : S \in {T \in SUBSET Universe : Cardinality(T) <= MaxEntries} }

\* Demo/Widget/Icon\r with a colour raster and a same-id 1-bit mask
DemoSources ==
    { {TopDir(<<"D", "e", "m", "o">>,
              {Ent(20, IconCR, <<"W", "i", "d", "g", "e", "t">>, FALSE, 20, k)})} :
        k \in {1, 5} }

Sources == GeneralSources \cup DemoSources

\* the names foo--bar.png, foo--bar-1.png, ... that may be there already
ExistingNames ==
    {BaseName(S_foo, S_bar)} \cup {SuffixName(S_foo, S_bar, i) : i \in 1..MaxSuffix}

InitialDirs == {[f \in F |-> Existing] : F \in SUBSET ExistingNames}

IdleDecoder ==
    /\ op = "load"
    /\ arg = <<>>
    /\ result = None

IdleParser ==
    /\ p_data = <<>>
    /\ p_pos = 0
    /\ p_elements = EmptyDict
    /\ ppc = "idle"

Init ==
    /\ palette = BuildPalette
    /\ IdleDecoder
    /\ IdleParser
    /\ source \in Sources
    /\ \E d \in InitialDirs : outdir = <<d, d>>
    /\ walk = <<NewWalk("start", 1), NewWalk("idle", 2)>>

Step(w) ==
    \/ Start(w)
    \/ SkipTop(w)
    \/ EnterCollection(w)
    \/ Finish(w)
    \/ Pass1Skip(w)
    \/ Pass1Resolve(w)
    \/ Pass1Save(w)
    \/ Pass1End(w)
    \/ Pass2Skip(w)
    \/ Pass2Resolve(w)
    \/ Pass2Save(w)
    \/ Pass2End(w)

Next == Step(1)

Spec == Init /\ [][Next]_vars

(***************************************************************************)
(* Claims about extract_all, checked under Spec                            *)
(***************************************************************************)
\* the calls of extract_from_rsrc that ended in a saved file
Saved(w) == {e \in walk[w].log : e.ok}

\* the output directory of walk w held nothing when the walk began
InitiallyEmpty(w) == \A f \in DOMAIN Dir(w) : Dir(w)[f] # Existing

S_foo_bar == <<"f", "o", "o", "-", "-", "b", "a", "r", ".", "p", "n", "g">>

S_foo_bar_1 == <<"f", "o", "o", "-", "-", "b", "a", "r", "-", "1", ".", "p", "n", "g">>

\* C1: a step that changes an output directory is the save of a walk whose
\* destination was not in the directory before the step; it adds that one
\* name and leaves every file that was there, pre-existing or written
\* earlier in the run, as it was.
C1_NeverOverwrite ==
    [][\A d \in DOMAIN outdir :
          outdir'[d] # outdir[d] =>
             \E w \in Walkers :
                /\ walk[w].out = d
                /\ walk[w].pc \in {"save1", "save2"}
                /\ ~Exists(outdir[d], walk[w].dest)
                /\ DOMAIN outdir'[d] = (DOMAIN outdir[d]) \cup {walk[w].dest}
                /\ \A f \in DOMAIN outdir[d] : outdir'[d][f] = outdir[d][f]]_vars

\* C1 witness: an icon was saved under a suffixed name while the file of the
\* plain name, there before the run, is still what it was.
C1_Witness ==
    \E e \in Saved(1) :
        /\ e.dest # BaseName(e.collection_name, e.icon_name)
        /\ Exists(Dir(1), BaseName(e.collection_name, e.icon_name))
        /\ Dir(1)[BaseName(e.collection_name, e.icon_name)] = Existing
        /\ Dir(1)[e.dest].mode = "png"

\* the marker files of the collection directory named dir
MarkersOf(dir) ==
    UNION {{m \in top.entries : m.name = IconCR} : top \in {t \in source : t.name = dir}}

\* C2 as stated: no resolved path is handed to extract_from_rsrc twice.
C2_NoResolvedPathTwice ==
    \A w \in Walkers : \A e1, e2 \in walk[w].log :
        e1 # e2 => e1.resolved # e2.resolved

\* C2 amended: within one collection no entry is handed to extract_from_rsrc
\* twice, Pass 2 extracts nothing that resolves to a marker file of the
\* collection, and when the walk is done every marker file with a resource
\* stream was extracted once, by Pass 1.
C2_ConsumedOnce ==
    \A w \in Walkers :
        /\ \A e1, e2 \in walk[w].log : e1 # e2 => e1.path # e2.path
        /\ \A e \in walk[w].log :
              e.pass = 2 => \A m \in MarkersOf(e.dir) : m.resolved # e.resolved
        /\ walk[w].pc = "done" =>
              \A top \in source :
                  (top.isdir /\ ~StartsWith(top.name, Dot)) =>
                      \A m \in top.entries :
                          (m.name = IconCR /\ m.fork # NoFork) =>
                              \E e \in walk[w].log : e.path = m.path /\ e.pass = 1

\* C2 witness: the walk is over a collection that held a marker file and a
\* link to it, and the marker file was extracted.
C2_Witness ==
    /\ walk[1].pc = "done"
    /\ \E top \in source : \E m, l \in top.entries :
          /\ m.name = IconCR
          /\ l.path # m.path
          /\ l.resolved = m.path
          /\ \E e \in Saved(1) : e.path = m.path

\* C3: the destination is the plain name when that is free, else the name
\* with the smallest suffix n >= 1 that is free; and the first two icons saved
\* under one collection and icon name into an empty directory are
\* {collection}--{icon}.png and {collection}--{icon}-1.png.
C3_CollisionNaming ==
    \A w \in {1} :
        /\ walk[w].pc \in {"save1", "save2"} =>
              LET c == walk[w].collection_name
                  n == walk[w].icon_name
              IN  /\ ~Exists(Dir(w), BaseName(c, n)) => walk[w].dest = BaseName(c, n)
                  /\ Exists(Dir(w), BaseName(c, n)) =>
                        \E k \in 1..(Cardinality(DOMAIN Dir(w)) + 1) :
                            /\ walk[w].dest = SuffixName(c, n, k)
                            /\ ~Exists(Dir(w), SuffixName(c, n, k))
                            /\ \A j \in 1..(k - 1) : Exists(Dir(w), SuffixName(c, n, j))
        /\ (InitiallyEmpty(w) /\ Saved(w) # {}) =>
              \A e \in Saved(w) :
                  (\A e2 \in Saved(w) :
                       e2.collection_name = e.collection_name /\ e2.icon_name = e.icon_name) =>
                      /\ Cardinality(Saved(w)) = 1 =>
                            DOMAIN Dir(w) = {BaseName(e.collection_name, e.icon_name)}
                      /\ Cardinality(Saved(w)) = 2 =>
                            DOMAIN Dir(w) = {BaseName(e.collection_name, e.icon_name),
                                             SuffixName(e.collection_name, e.icon_name, 1)}

\* C3 witness: two icons named foo / bar were saved into an empty directory,
\* which now holds foo--bar.png and foo--bar-1.png.
C3_Witness ==
    /\ InitiallyEmpty(1)
    /\ Cardinality(Saved(1)) = 2
    /\ \A e \in Saved(1) : e.collection_name = S_foo /\ e.icon_name = S_bar
    /\ DOMAIN Dir(1) = {S_foo_bar, S_foo_bar_1}

\* bit 7 - (x mod 8) of byte y*4 + floor(x/8) of the mask half of an ICN#
MaskBit(icn_data, x, y) ==
    (icn_data[IcnMaskOffset + y * 4 + (x \div 8) + 1] \div (2 ^ (7 - (x % 8)))) % 2

\* the end-to-end run on Demo/Widget/Icon\r left exactly the file `name`,
\* a 32x32 RGBA raster with the mask's bits as alpha
DemoResult(name) ==
    \A k \in {1, 5} :
        (source \in DemoSources /\ (\E top \in source : \E e \in top.entries : e.fork = k)
            /\ walk[1].pc = "done" /\ InitiallyEmpty(1)) =>
            /\ DOMAIN Dir(1) = {name}
            /\ LET img == Raster(Dir(1)[name])
                   icn_data == Forks[k].icn[1].data
               IN  /\ img.mode = "RGBA"
                   /\ DOMAIN img.px = Coord
                   /\ \A x \in Coord :
                         /\ DOMAIN img.px[x] = Coord
                         /\ \A y \in Coord :
                               img.px[x][y][4] = IF MaskBit(icn_data, x, y) = 1 THEN 255 ELSE 0

\* C4 as stated: the one file written is demo--widget.png.
C4_DemoLowerCase ==
    DemoResult(<<"d", "e", "m", "o", "-", "-", "w", "i", "d", "g", "e", "t", ".", "p", "n", "g">>)

\* C4 amended: the one file written is Demo--Widget.png (sanitize_name keeps
\* the letters' case), a 32x32 RGBA raster whose alpha follows the mask bits.
C4_DemoEndToEnd ==
    DemoResult(<<"D", "e", "m", "o", "-", "-", "W", "i", "d", "g", "e", "t", ".", "p", "n", "g">>)

\* C4 witness: the walk over Demo is done and has saved its one icon.
C4_Witness ==
    /\ source \in DemoSources
    /\ walk[1].pc = "done"
    /\ InitiallyEmpty(1)
    /\ walk[1].extracted = 1
    /\ Cardinality(DOMAIN Dir(1)) = 1

(***************************************************************************)
(* Two runs of extract_all, one after the other, on the same source tree   *)
(* and each on its own copy of the same output directory                   *)
(***************************************************************************)
InitPair ==
    /\ palette = BuildPalette
    /\ IdleDecoder
    /\ IdleParser
    /\ source \in Sources
    /\ \E d \in InitialDirs : outdir = <<d, d>>
    /\ walk = <<NewWalk("start", 1), NewWalk("start", 2)>>

FirstRun == Step(1)

SecondRun == walk[1].pc = "done" /\ Step(2)

NextPair == FirstRun \/ SecondRun

SpecPair == InitPair /\ [][NextPair]_vars

\* the file name each source item was saved under
Names(w) == {<<e.path, e.dest>> : e \in Saved(w)}

\* C5: two runs on the same source tree and the same initial output
\* directory save every source item under the same file name, whatever order
\* rglob yields the entries of a collection in.
C5_DeterministicNaming ==
    (walk[1].pc = "done" /\ walk[2].pc = "done") => Names(1) = Names(2)

(***************************************************************************)
(* parse_icns_container, one loop iteration at a time                      *)
(*                                                                         *)
(* The buffer is built from a recipe (kept in arg): an optional header and *)
(* a list of elements [t, n] of type code t and payload length n, the      *)
(* payload bytes of the i-th element being i*16 + j.  Element number bad   *)
(* (0 for none) declares a wrong length: 7 ("small"), one more than it has *)
(* ("over") or 0xFFFFFFFF ("huge").                                        *)
(***************************************************************************)
MaxElems == 3
\* payload lengths of the generated elements: empty and one byte
PayloadLens == {0, 1}

Payload(i, n) == [j \in 1..n |-> (i * 16 + j) % 256]

DeclaredLen(recipe, i) ==
    IF recipe.bad # i THEN BE32(recipe.elems[i].n + HeaderLen)
    ELSE IF recipe.kind = "small" THEN BE32(HeaderLen - 1)
    ELSE IF recipe.kind = "zero" THEN BE32(0)
    ELSE IF recipe.kind = "over" THEN BE32(recipe.elems[i].n + HeaderLen + 1)
    ELSE <<255, 255, 255, 255>>

ElementBytes(recipe, i) ==
    recipe.elems[i].t \o DeclaredLen(recipe, i) \o Payload(i, recipe.elems[i].n)

Body(recipe) == Concat([i \in DOMAIN recipe.elems |-> ElementBytes(recipe, i)])

Build(recipe) ==
    IF recipe.header
    THEN T_icns \o BE32(Len(Body(recipe)) + HeaderLen) \o Body(recipe)
    ELSE Body(recipe)

\* where the i-th element starts in the buffer
StartOf(recipe, i) ==
    (IF recipe.header THEN HeaderLen ELSE 0)
    + Len(Concat([k \in 1..(i - 1) |-> ElementBytes(recipe, k)]))

TypeCodes == {T_icl8, T_ICN, T_l8mk}

ElemSeqs ==
    UNION {[1..k -> [t : TypeCodes, n : PayloadLens]] : k \in 0..MaxElems}

Recipes ==
    { [header |-> h, elems |-> es, bad |-> b, kind |-> kd] :
        h \in BOOLEAN, es \in ElemSeqs, b \in {0}, kd \in {"none"} }
    \cup
    { [header |-> h, elems |-> es, bad |-> b, kind |-> kd] :
        h \in BOOLEAN, es \in ElemSeqs \ {<<>>}, b \in 1..MaxElems,
        kd \in {"small", "zero", "over", "huge"} }

\* header, colour raster, 1-bit mask and 8-bit mask at their real sizes
RealRecipe ==
    [header |-> TRUE,
     elems |-> <<[t |-> T_icl8, n |-> Icl8Len], [t |-> T_ICN, n |-> IcnLen],
                 [t |-> T_l8mk, n |-> Icl8Len]>>,
     bad |-> 0, kind |-> "none"]

IdleWalks ==
    /\ source = {}
    /\ outdir = <<<<>>, <<>>>>
    /\ walk = <<NewWalk("idle", 1), NewWalk("idle", 2)>>

InitParse ==
    /\ palette = BuildPalette
    /\ op = "parse"
    /\ arg \in {r \in Recipes : r.bad <= Len(r.elems)} \cup {RealRecipe}
    /\ result = None
    /\ p_data = Build(arg)
    /\ p_pos = 0
    /\ p_elements = EmptyDict
    /\ ppc = "start"
    /\ IdleWalks

\* lines 153-157
ParseStart ==
    /\ ppc = "start"
    /\ p_elements' = EmptyDict
    /\ p_pos' = ParseStartPos(p_data)
    /\ ppc' = "loop"
    /\ UNCHANGED <<palette, op, arg, result, p_data, source, outdir, walk>>

\* lines 159-165: an iteration that parses an element
ParseStep ==
    /\ ppc = "loop"
    /\ ParseCond(p_data, p_pos)
    /\ ~ParseBreaks(p_data, p_pos)
    /\ LET st == ParseBody(p_data, [pos |-> p_pos, elements |-> p_elements])
       IN  /\ p_pos' = st.pos
           /\ p_elements' = st.elements
    /\ UNCHANGED <<palette, op, arg, result, p_data, ppc, source, outdir, walk>>

\* lines 159-163: an iteration that breaks
ParseBreak ==
    /\ ppc = "loop"
    /\ ParseCond(p_data, p_pos)
    /\ ParseBreaks(p_data, p_pos)
    /\ ppc' = "done"
    /\ UNCHANGED <<palette, op, arg, result, p_data, p_pos, p_elements, source, outdir, walk>>

\* lines 159, 167: the loop test fails
ParseExit ==
    /\ ppc = "loop"
    /\ ~ParseCond(p_data, p_pos)
    /\ ppc' = "done"
    /\ UNCHANGED <<palette, op, arg, result, p_data, p_pos, p_elements, source, outdir, walk>>

NextParse == ParseStart \/ ParseStep \/ ParseBreak \/ ParseExit

SpecParse == InitParse /\ [][NextParse]_vars

(***************************************************************************)
(* Claims about parse_icns_container, checked under SpecParse              *)
(***************************************************************************)
\* the elements of the recipe the loop reaches: those that start more than
\* a header's length before the end of the buffer
Reached(recipe) ==
    {i \in DOMAIN recipe.elems : StartOf(recipe, i) < Len(Build(recipe)) - HeaderLen}

\* the declared length of element number bad is below 8 or above the bytes
\* that remain from its start
Offending(recipe) ==
    /\ recipe.bad \in DOMAIN recipe.elems
    /\ \/ recipe.kind \in {"small", "zero", "huge"}
       \/ recipe.kind = "over" /\ recipe.bad = Len(recipe.elems)

\* C6: a header and three elements of distinct type codes (colour raster,
\* 1-bit mask, 8-bit mask), each declaring payload length + 8 and the last
\* with a payload that is not empty, parse to exactly those three type
\* codes, each with the payload that was encoded.
C6_RoundTrip ==
    (/\ ppc = "done"
     /\ arg.header
     /\ arg.bad = 0
     /\ Len(arg.elems) = 3
     /\ {arg.elems[i].t : i \in 1..3} = TypeCodes
     /\ arg.elems[3].n >= 1) =>
        /\ DOMAIN p_elements = TypeCodes
        /\ \A i \in 1..3 : p_elements[arg.elems[i].t] = Payload(i, arg.elems[i].n)
        /\ parse_icns_container(p_data) = p_elements

\* C6 witness: the container with a 1024-byte raster, a 256-byte ICN# and a
\* 1024-byte l8mk has been parsed to three entries.
C6_Witness ==
    /\ ppc = "done"
    /\ arg = RealRecipe
    /\ Cardinality(DOMAIN p_elements) = 3
    /\ Len(p_elements[T_icl8]) = Icl8Len

\* C7: when an element declares a length below 8 or above the bytes that
\* remain from its start, the parser stops at it: the result holds the type
\* codes of the elements before it, each with the payload of one of them,
\* and nothing of the offending element or of what follows it.
C7_Truncation ==
    (ppc = "done" /\ Offending(arg)) =>
        /\ p_pos = StartOf(arg, arg.bad)
        /\ DOMAIN p_elements = {arg.elems[i].t : i \in 1..(arg.bad - 1)}
        /\ \A t \in DOMAIN p_elements :
              \E i \in 1..(arg.bad - 1) :
                  arg.elems[i].t = t /\ p_elements[t] = Payload(i, arg.elems[i].n)
        /\ parse_icns_container(p_data) = p_elements

\* C7 witness: the third element declared one byte more than the buffer has
\* left, and the two before it are the result.
C7_Witness ==
    /\ ppc = "done"
    /\ arg.bad = 3
    /\ arg.kind = "over"
    /\ Len(arg.elems) = 3
    /\ arg.elems[3].n = 1
    /\ Cardinality(DOMAIN p_elements) = 2

SampleKs == {1, 3}

\* byte number j (from 0) of sample k of a type, the sample repeated as
\* far as a longer payload needs
SampleByte(t, k, j) ==
    IF t = T_icl8 THEN Icl8Byte(k, (j % Icl8Len) + 1)
    ELSE IF t = T_l8mk THEN L8mkByte(k, (j % Icl8Len) + 1)
    ELSE IcnByte(k, (j % IcnLen) + 1)

\* sample k of a type, repeated or cut to n bytes
Resize(t, k, n) == [i \in 1..n |-> SampleByte(t, k, i - 1)]

\* payload lengths around the size each decoder asks for
DecodeLens(t) ==
    IF t = T_icl8 THEN {Icl8Len - 1, Icl8Len}
    ELSE IF t = T_l8mk THEN {0, Icl8Len - 1, Icl8Len, Icl8Len + 1}
    ELSE {0, IcnLen - 1, IcnLen}

ElemChoices == UNION {{[t |-> t, n |-> n] : n \in DecodeLens(t)} : t \in TypeCodes}

\* element lists with at most one element of a type, in every order
PlanElems ==
    {es \in UNION {[1..k -> ElemChoices] : k \in 0..Cardinality(TypeCodes)} :
        \A i, j \in DOMAIN es : i # j => es[i].t # es[j].t}

PlanHas(plan, t) == \E i \in DOMAIN plan.elems : plan.elems[i].t = t

PlanLen(plan, t) ==
    plan.elems[CHOOSE i \in DOMAIN plan.elems : plan.elems[i].t = t].n

PlanData(plan, t) == Resize(t, plan.k, PlanLen(plan, t))

PlanBytes(plan) ==
    Container([i \in DOMAIN plan.elems |->
                  Element(plan.elems[i].t, PlanData(plan, plan.elems[i].t))])

IcnsInputs ==
    {[fn |-> "extract_from_icns", elems |-> es, k |-> k] :
        es \in PlanElems, k \in SampleKs}

\* an ICN# record with only the highest bit of byte 0 of its mask set
TopBitOnly ==
    [i \in 1..IcnLen |-> IF i = IcnMaskOffset + 1 THEN 128 ELSE IF i <= IcnMaskOffset THEN 255 ELSE 0]

\* sample k with its bitmap half replaced by bytes of value v
OtherBitmap(k, v) ==
    [i \in 1..IcnLen |-> IF i <= IcnMaskOffset THEN v ELSE IcnByte(k, i)]

MaskInputs ==
    {[fn |-> "extract_mask_from_icn", data |-> d] :
        d \in {Resize(T_ICN, k, n) : k \in SampleKs, n \in DecodeLens(T_ICN) \cup {IcnLen + 1}}
              \cup {Solid(255, IcnLen), Solid(0, IcnLen), Solid(255, IcnLen - 1), TopBitOnly}
              \cup {OtherBitmap(k, v) : k \in SampleKs, v \in {0, 170}}}

Icl8Inputs ==
    {[fn |-> "extract_icl8", data |-> Resize(T_icl8, k, n), mask |-> m] :
        k \in SampleKs, n \in DecodeLens(T_icl8) \cup {Icl8Len + 1},
        m \in {None, extract_mask_from_icn(IcnSample(7)), L8mkMask(L8mkSample(1))}}
    \cup
    {[fn |-> "extract_icl8", data |-> Solid(i, Icl8Len), mask |-> None] : i \in 0..255}

RsrcInputs == {[fn |-> "extract_from_rsrc", fork |-> f] : f \in DOMAIN Forks}

InitDecode ==
    /\ palette = BuildPalette
    /\ op = "call"
    /\ arg \in IcnsInputs \cup MaskInputs \cup Icl8Inputs \cup RsrcInputs
    /\ result = None
    /\ p_data = IF arg.fn = "extract_from_icns" THEN PlanBytes(arg) ELSE <<>>
    /\ p_pos = 0
    /\ p_elements = EmptyDict
    /\ ppc = "idle"
    /\ IdleWalks

CallMask ==
    /\ op = "call"
    /\ arg.fn = "extract_mask_from_icn"
    /\ result' = extract_mask_from_icn(arg.data)
    /\ op' = "done"
    /\ UNCHANGED <<palette, arg, p_data, p_pos, p_elements, ppc, source, outdir, walk>>

CallIcl8 ==
    /\ op = "call"
    /\ arg.fn = "extract_icl8"
    /\ result' = extract_icl8(arg.data, arg.mask)
    /\ op' = "done"
    /\ UNCHANGED <<palette, arg, p_data, p_pos, p_elements, ppc, source, outdir, walk>>

CallIcns ==
    /\ op = "call"
    /\ arg.fn = "extract_from_icns"
    /\ result' = extract_from_icns(p_data)
    /\ op' = "done"
    /\ UNCHANGED <<palette, arg, p_data, p_pos, p_elements, ppc, source, outdir, walk>>

CallRsrc ==
    /\ op = "call"
    /\ arg.fn = "extract_from_rsrc"
    /\ result' = extract_from_rsrc(Forks[arg.fork])
    /\ op' = "done"
    /\ UNCHANGED <<palette, arg, p_data, p_pos, p_elements, ppc, source, outdir, walk>>

NextDecode == CallMask \/ CallIcl8 \/ CallIcns \/ CallRsrc

SpecDecode == InitDecode /\ [][NextDecode]_vars

(***************************************************************************)
(* Claims about extract_from_icns and PALETTE, checked under SpecDecode    *)
(***************************************************************************)
Usable(plan, t, n) == PlanHas(plan, t) /\ PlanLen(plan, t) >= n

\* bit 7 - (x mod 8) of byte y*4 + floor(x/8) of the mask half of the
\* plan's ICN# payload
PlanMaskBit(plan, x, y) ==
    (SampleByte(T_ICN, plan.k, IcnMaskOffset + y * 4 + (x \div 8)) \div (2 ^ (7 - (x % 8)))) % 2

\* C9: on a container with a colour raster of at least 1024 bytes,
\* extract_from_icns takes the l8mk payload as the alpha plane whenever it
\* has at least 1024 bytes, whether or not an ICN# payload is there too:
\* the result is RGBA with alpha(x, y) the l8mk byte at y*32 + x.  Only
\* without such an l8mk payload is the alpha the 1-bit mask of a 256-byte
\* ICN# payload, and without either the result is RGB.
C9_MaskSelection ==
    (op = "done" /\ arg.fn = "extract_from_icns" /\ Usable(arg, T_icl8, Icl8Len)) =>
        IF Usable(arg, T_l8mk, Icl8Len)
        THEN /\ result.mode = "RGBA"
             /\ \A x, y \in Coord :
                   result.px[x][y][4] = SampleByte(T_l8mk, arg.k, y * 32 + x)
        ELSE IF Usable(arg, T_ICN, IcnLen)
        THEN /\ result.mode = "RGBA"
             /\ \A x, y \in Coord :
                   result.px[x][y][4] = 255 * PlanMaskBit(arg, x, y)
        ELSE result.mode = "RGB"

\* C9 witness: a container with a raster, a 256-byte ICN# and a 1024-byte
\* l8mk was decoded, and at a pixel where the two masks differ the alpha is
\* the l8mk byte.
C9_Witness ==
    /\ op = "done"
    /\ arg.fn = "extract_from_icns"
    /\ Usable(arg, T_icl8, Icl8Len)
    /\ Usable(arg, T_l8mk, Icl8Len)
    /\ Usable(arg, T_ICN, IcnLen)
    /\ result.mode = "RGBA"
    /\ \E x, y \in Coord :
          /\ SampleByte(T_l8mk, arg.k, y * 32 + x) # 255 * PlanMaskBit(arg, x, y)
          /\ result.px[x][y][4] = SampleByte(T_l8mk, arg.k, y * 32 + x)

\* C10: in every reachable state PALETTE has exactly 256 entries: entry
\* 36r+6g+b is (255-51r, 255-51g, 255-51b) for r, g, b in 0..5; entries
\* 216-225, 226-235 and 236-245 are the ramp 255,238,...,102 on red, green
\* and blue alone; entries 246-255 are the gray ramp 238,221,...,102,0.
C10_Palette ==
    LET ramp == <<255, 238, 221, 204, 187, 170, 153, 136, 119, 102>>
        gray == <<238, 221, 204, 187, 170, 153, 136, 119, 102, 0>>
    IN  /\ Len(palette) = 256
        /\ \A r, g, b \in 0..5 :
              At(palette, 36 * r + 6 * g + b) = <<255 - 51 * r, 255 - 51 * g, 255 - 51 * b>>
        /\ \A i \in 0..9 :
              /\ At(palette, 216 + i) = <<ramp[i + 1], 0, 0>>
              /\ At(palette, 226 + i) = <<0, ramp[i + 1], 0>>
              /\ At(palette, 236 + i) = <<0, 0, ramp[i + 1]>>
              /\ At(palette, 246 + i) = <<gray[i + 1], gray[i + 1], gray[i + 1]>>

\* C10 witness: a raster without a mask has been decoded through the
\* palette, its pixel of index 255 coming out black and its pixel of index
\* 1 as the cube's second entry.
C10_Witness ==
    /\ op = "done"
    /\ arg.fn = "extract_icl8"
    /\ arg.mask = None
    /\ result.mode = "RGB"
    /\ At(arg.data, 7 * 32 + 31) = 255
    /\ result.px[31][7] = <<0, 0, 0>>
    /\ At(arg.data, 1) = 1
    /\ result.px[1][0] = <<255, 255, 204>>

(***************************************************************************)
(* Claims about extract_icl8 and extract_mask_from_icn, under SpecDecode   *)
(***************************************************************************)
\* C11: for a buffer of at least 1024 bytes extract_icl8 returns a raster
\* whose pixel (x, y) has the RGB of PALETTE[buffer[y*32 + x]]: RGB without
\* a mask, RGBA with the mask plane's value at (x, y) as alpha with one; a
\* shorter buffer gives no raster.  A solid buffer of value i without a mask
\* gives the palette's i-th triple at every pixel.
C11_ColorDecode ==
    (op = "done" /\ arg.fn = "extract_icl8") =>
        IF Len(arg.data) < 1024
        THEN result = None
        ELSE /\ DOMAIN result.px = 0..31
             /\ \A x \in 0..31 : DOMAIN result.px[x] = 0..31
             /\ \A x, y \in 0..31 :
                   LET rgb == palette[arg.data[y * 32 + x + 1] + 1]
                   IN  IF arg.mask = None
                       THEN result.mode = "RGB" /\ result.px[x][y] = rgb
                       ELSE /\ result.mode = "RGBA"
                            /\ result.px[x][y] = rgb \o <<arg.mask.px[x][y]>>
             /\ \A i \in 0..255 :
                   (arg.data = Solid(i, 1024) /\ arg.mask = None) =>
                       \A x, y \in 0..31 : result.px[x][y] = palette[i + 1]

\* C11 witness: a raster that is not symmetric in x and y has been decoded
\* with a mask to RGBA.
C11_Witness ==
    /\ op = "done"
    /\ arg.fn = "extract_icl8"
    /\ Len(arg.data) >= 1024
    /\ arg.mask # None
    /\ arg.data[2] # arg.data[33]
    /\ result.mode = "RGBA"
    /\ result.px[1][0] = palette[arg.data[2] + 1] \o <<arg.mask.px[1][0]>>

\* C12: for a buffer of at least 256 bytes extract_mask_from_icn returns a
\* 32x32 plane with 255 at (x, y) when bit 7 - (x mod 8) of byte
\* 128 + y*4 + floor(x/8) is set and 0 otherwise, whatever the first 128
\* bytes are: all 255 for an all-0xFF buffer, all 0 for an all-0x00 one, 255
\* at (0,0) and 0 at (1..7,0) when only the highest bit of mask byte 0 is
\* set.  A shorter buffer gives no plane.
C12_MaskDecode ==
    (op = "done" /\ arg.fn = "extract_mask_from_icn") =>
        IF Len(arg.data) < 256
        THEN result = None
        ELSE /\ result.mode = "L"
             /\ DOMAIN result.px = 0..31
             /\ \A x \in 0..31 : DOMAIN result.px[x] = 0..31
             /\ \A x, y \in 0..31 :
                   result.px[x][y] =
                       255 * ((arg.data[128 + y * 4 + (x \div 8) + 1] \div (2 ^ (7 - (x % 8)))) % 2)
             /\ arg.data = Solid(255, 256) => \A x, y \in 0..31 : result.px[x][y] = 255
             /\ arg.data = Solid(0, 256) => \A x, y \in 0..31 : result.px[x][y] = 0
             /\ arg.data = TopBitOnly =>
                   result.px[0][0] = 255 /\ \A x \in 1..7 : result.px[x][0] = 0

\* C12 witness: the record whose bitmap half is all ones and whose mask half
\* has one bit set has been decoded to a plane with one pixel of 255.
C12_Witness ==
    /\ op = "done"
    /\ arg.fn = "extract_mask_from_icn"
    /\ arg.data = TopBitOnly
    /\ result.px[0][0] = 255
    /\ result.px[1][0] = 0
    /\ result.px[0][1] = 0

(***************************************************************************)
(* Claims about the counters of extract_all, checked under Spec            *)
(***************************************************************************)
\* the files of walk w's output directory that were not there at the start
Created(w) == {f \in DOMAIN Dir(w) : Dir(w)[f] # Existing}

\* a complete 32x32 raster
Complete(img) ==
    /\ img.mode \in {"RGB", "RGBA"}
    /\ DOMAIN img.px = 0..31
    /\ \A x \in 0..31 : DOMAIN img.px[x] = 0..31

\* C13: at every point of a walk the files it has created are as many as
\* its extracted counter, each of them is the destination of an item whose
\* extraction returned a raster, a complete 32x32 one, each such item has a
\* file of its own, and so the items whose extraction failed left the
\* directory and the counter as they were.
C13_WriteOnlyOnSuccess ==
    /\ Cardinality(Created(1)) = walk[1].extracted
    /\ Cardinality(Saved(1)) = walk[1].extracted
    /\ \A f \in Created(1) : \E e \in Saved(1) : e.dest = f
    /\ Cardinality({e.dest : e \in Saved(1)}) = Cardinality(Saved(1))
    /\ walk[1].pc = "done" => \A f \in Created(1) : Complete(Raster(Dir(1)[f]))

\* C13 witness: a walk has ended with one item saved and one item failed.
C13_Witness ==
    /\ walk[1].pc = "done"
    /\ walk[1].extracted = 1
    /\ Cardinality(Created(1)) = 1
    /\ \E e \in walk[1].log : ~e.ok

\* the entries of the source tree for which extraction is attempted: in a
\* top-level directory that is not hidden, an entry with a resource stream
\* that is a marker file, or a file that is not hidden and does not resolve
\* to a marker file of that directory
AttemptedItems ==
    UNION { {e \in top.entries :
                /\ e.fork # NoFork
                /\ \/ e.name = <<"I", "c", "o", "n", "\r">>
                   \/ /\ ~e.isdir
                      /\ Head(e.name) # "."
                      /\ \A mk \in top.entries :
                            mk.name = <<"I", "c", "o", "n", "\r">> => mk.resolved # e.resolved} :
            top \in {t \in source : t.isdir /\ Head(t.name) # "."} }

\* C14: every attempt increments exactly one of extracted and skipped: at
\* every point they add up to the attempts made so far, and when the walk
\* has finished to the number of items of the source tree that are to be
\* attempted; the value returned is extracted.
C14_CountedOutcomes ==
    /\ walk[1].extracted + walk[1].skipped = Cardinality(walk[1].log)
    /\ walk[1].extracted = Cardinality({e \in walk[1].log : e.ok})
    /\ walk[1].pc = "done" =>
          /\ walk[1].extracted + walk[1].skipped = Cardinality(AttemptedItems)
          /\ {e.path : e \in walk[1].log} = {e.path : e \in AttemptedItems}
          /\ walk[1].ret = walk[1].extracted

\* C14 witness: a walk has finished with an item extracted and an item
\* skipped, and returned 1.
C14_Witness ==
    /\ walk[1].pc = "done"
    /\ walk[1].ret = 1
    /\ walk[1].skipped = 1
    /\ Cardinality(AttemptedItems) = 2

(***************************************************************************)
(* Claims about extract_from_rsrc, checked under SpecDecode                *)
(***************************************************************************)
\* the stream is not empty and is a resource file
Readable(fork) == fork.size # 0 /\ ~fork.malformed

\* the direct colour-raster records that can be read and have 1024 bytes
GoodDirect(fork) ==
    {i \in 1..Len(fork.icl8) : ~fork.icl8[i].err /\ Len(fork.icl8[i].data) >= 1024}

\* the ICN# records of an id that can be read and have 256 bytes
MasksOf(fork, id) ==
    {j \in 1..Len(fork.icn) :
        fork.icn[j].id = id /\ ~fork.icn[j].err /\ Len(fork.icn[j].data) >= 256}

\* the least member of a set of numbers
Least(S) == CHOOSE i \in S : \A j \in S : i <= j

\* the decode of direct record i with the mask of its own id, if any
DirectDecode(fork, i) ==
    LET rec == fork.icl8[i]
        masks == MasksOf(fork, rec.id)
    IN  extract_icl8(rec.data,
                     IF masks = {} THEN None
                     ELSE extract_mask_from_icn(fork.icn[Least(masks)].data))

\* C18: when the fork has direct icl8 records of which one has at least
\* 1024 bytes, extract_from_rsrc returns the decode of the first such record
\* in enumeration order, with the 1-bit mask of the ICN# record of the same
\* id when there is one (of 256 bytes, readable) and without a mask
\* otherwise; no later record and no mask of another id is used.
C18_DirectFirstSuccess ==
    LET fork == Forks[arg.fork]
    IN  (op = "done" /\ arg.fn = "extract_from_rsrc" /\ Readable(fork)
             /\ GoodDirect(fork) # {}) =>
            result = DirectDecode(fork, Least(GoodDirect(fork)))

\* C18 witness: of a short record 128, a record 129 without a mask and a
\* record 130 with one, where 128 and 130 have ICN# records, record 129 was
\* returned, opaque.
C18_Witness ==
    /\ op = "done"
    /\ arg.fn = "extract_from_rsrc"
    /\ Len(Forks[arg.fork].icl8) = 3
    /\ GoodDirect(Forks[arg.fork]) = {2, 3}
    /\ MasksOf(Forks[arg.fork], 129) = {}
    /\ MasksOf(Forks[arg.fork], 130) # {}
    /\ result.mode = "RGB"
    /\ result # DirectDecode(Forks[arg.fork], 3)

\* the container records that can be read and decode to a raster
GoodContainers(fork) ==
    {j \in 1..Len(fork.icns) :
        ~fork.icns[j].err /\ extract_from_icns(fork.icns[j].data) # None}

\* C19 as stated: when the fork has a direct colour-raster record set the
\* direct path alone decides, so with no decodable direct record there is
\* no raster, whatever the container records hold.
C19_Exclusive ==
    LET fork == Forks[arg.fork]
    IN  (op = "done" /\ arg.fn = "extract_from_rsrc" /\ Readable(fork)
             /\ Len(fork.icl8) > 0 /\ GoodDirect(fork) = {}) =>
            result = None

\* C19 amended: when a direct record decodes, the result is the one the
\* fork gives with its container records taken away; when the fork has no
\* direct record set or none of its records decodes, the result is the
\* decode of the first container record that decodes, or no raster.
C19_FallThrough ==
    LET fork == Forks[arg.fork]
    IN  (op = "done" /\ arg.fn = "extract_from_rsrc" /\ Readable(fork)) =>
            IF GoodDirect(fork) # {}
            THEN /\ result # None
                 /\ result = extract_from_rsrc([fork EXCEPT !.icns = <<>>])
            ELSE IF GoodContainers(fork) # {}
                 THEN result = extract_from_icns(fork.icns[Least(GoodContainers(fork))].data)
                 ELSE result = None

\* C19 witness: a fork with a direct record one byte short and a container
\* gave the container's raster.
C19_Witness ==
    /\ op = "done"
    /\ arg.fn = "extract_from_rsrc"
    /\ Len(Forks[arg.fork].icl8) > 0
    /\ GoodDirect(Forks[arg.fork]) = {}
    /\ GoodContainers(Forks[arg.fork]) # {}
    /\ result.mode = "RGBA"

(***************************************************************************)
(* extract_all on source trees whose items fail in every way, run to its   *)
(* end: SpecLive.  The script is one sequential process, so a step that    *)
(* can be taken is taken.                                                  *)
(***************************************************************************)
FailUniverse ==
    { Ent(38, IconCR, S_bar, FALSE, 38, 6),                \* bar/Icon\r, good
      Ent(10, IconCR, <<"!">>, FALSE, 10, NoFork),         \* !/Icon\r, no stream
      Ent(31, IconCR, <<"m">>, FALSE, 31, 4),              \* m/Icon\r, not a resource file
      Ent(32, <<"a">>, <<"x">>, FALSE, 32, 9),             \* x/a, unreadable record
      Ent(33, <<"b">>, <<"x">>, FALSE, 33, 8),             \* x/b, corrupt container
      Ent(34, <<"c">>, <<"x">>, FALSE, 34, 10),            \* x/c, no icon data
      Ent(15, <<"s", "h">>, <<"x">>, FALSE, 15, 2),        \* x/sh, too short
      Ent(3, S_bar, <<"x">>, FALSE, 3, 6) }                \* x/bar, good

LiveSources ==
    UNION { Layouts(S) : S \in {T \in SUBSET FailUniverse : Cardinality(T) <= MaxEntries} }

InitLive ==
    /\ palette = BuildPalette
    /\ IdleDecoder
    /\ IdleParser
    /\ source \in LiveSources
    /\ outdir = <<<<>>, <<>>>>
    /\ walk = <<NewWalk("start", 1), NewWalk("idle", 2)>>

SpecLive == InitLive /\ [][Next]_vars /\ WF_vars(Next)

\* C15: a walk over items that fail (unreadable or malformed stream,
\* unreadable or too-short record, corrupt container, no icon data) comes
\* to its end, and by then every item of every top-level directory that is
\* not hidden has been attempted.
C15_Progress ==
    <>(/\ walk[1].pc = "done"
       /\ {e.path : e \in walk[1].log} = {e.path : e \in AttemptedItems})

\* C15 witness: a walk has ended after two items of one collection failed
\* and an item of the next collection was extracted.
C15_Witness ==
    /\ walk[1].pc = "done"
    /\ walk[1].skipped = 2
    /\ walk[1].extracted = 1
    /\ \E e1, e2 \in walk[1].log : ~e1.ok /\ e2.ok /\ e1.dir # e2.dir

(***************************************************************************)
(* extract_all on source trees whose items keep their rasters in           *)
(* containers, or nowhere: SpecContainers                                  *)
(***************************************************************************)
ContainerUniverse ==
    { Ent(39, IconCR, S_bar, FALSE, 39, 7),                \* bar/Icon\r, one container
      Ent(10, IconCR, <<"!">>, FALSE, 10, NoFork),         \* !/Icon\r, no stream
      Ent(35, <<"d">>, <<"x">>, FALSE, 35, 16),            \* x/d, third container good
      Ent(36, <<"e">>, <<"x">>, FALSE, 36, 17),            \* x/e, no container good
      Ent(37, <<"f">>, <<"x">>, FALSE, 37, 14),            \* x/f, short raster and container
      Ent(34, <<"c">>, <<"x">>, FALSE, 34, 10),            \* x/c, no icon data
      Ent(15, <<"s", "h">>, <<"x">>, FALSE, 15, 2),        \* x/sh, too short
      Ent(6, S_bar, <<"y">>, TRUE, 6, NoFork) }            \* y/bar/, a folder

ContainerSources ==
    UNION { Layouts(S) : S \in {T \in SUBSET ContainerUniverse : Cardinality(T) <= MaxEntries} }

InitContainers ==
    /\ palette = BuildPalette
    /\ IdleDecoder
    /\ IdleParser
    /\ source \in ContainerSources
    /\ outdir = <<<<>>, <<>>>>
    /\ walk = <<NewWalk("start", 1), NewWalk("idle", 2)>>

SpecContainers == InitContainers /\ [][Next]_vars

(***************************************************************************)
(* Claims about the order of the passes (Spec) and about forks without a   *)
(* usable raster (SpecContainers)                                          *)
(***************************************************************************)
\* C17: while the flat pass of a collection is under way, every marker
\* file of that collection is in processed_paths: no lookup of the flat
\* pass happens with a marker file still unrecorded.
C17_PassOrdering ==
    walk[1].pc \in {"pass2", "save2"} =>
        {mk.resolved : mk \in MarkersOf(walk[1].dir)} \subseteq walk[1].processed_paths

\* C17 witness: the flat pass is at an item of a collection that holds a
\* marker file.
C17_Witness ==
    /\ walk[1].pc = "save2"
    /\ MarkersOf(walk[1].dir) # {}
    /\ walk[1].processed_paths # {}

\* the container records that can be read and map a colour raster of at
\* least 1024 bytes
UsableContainers(fork) ==
    {j \in 1..Len(fork.icns) :
        /\ ~fork.icns[j].err
        /\ LET el == parse_icns_container(fork.icns[j].data)
           IN  DictHas(el, T_icl8) /\ Len(el[T_icl8]) >= 1024}

\* C20: a container without a colour raster of at least 1024 bytes yields
\* nothing and the next one is tried, so an item with no decodable direct
\* record is extracted from its first container that has such a raster; an
\* item whose every colour raster is absent or too short is not extracted,
\* and each such item is counted in skipped.
C20_NoIconData ==
    /\ walk[1].skipped = Cardinality({e \in walk[1].log : ~e.ok})
    /\ \A e \in walk[1].log :
          LET fork == Forks[e.fork]
          IN  (Readable(fork) /\ GoodDirect(fork) = {}) =>
                  IF UsableContainers(fork) = {}
                  THEN ~e.ok
                  ELSE /\ e.ok
                       /\ walk[1].pc = "done" =>
                             Raster(Dir(1)[e.dest]) =
                                 extract_from_icns(fork.icns[Least(UsableContainers(fork))].data)

\* C20 witness: a walk has ended having skipped an item whose containers
\* hold no usable raster and extracted one whose third container does.
C20_Witness ==
    /\ walk[1].pc = "done"
    /\ \E e \in walk[1].log :
          /\ ~e.ok
          /\ Len(Forks[e.fork].icns) > 1
          /\ UsableContainers(Forks[e.fork]) = {}
    /\ \E e \in walk[1].log : e.ok /\ UsableContainers(Forks[e.fork]) = {3}
    /\ walk[1].skipped = 1

(***************************************************************************)
(* Two runs of extract_all at once, on the same source tree and into the   *)
(* same output directory: SpecConc.  Each run is a process of its own; the *)
(* steps of the two interleave in any order.                               *)
(***************************************************************************)
ConcUniverse ==
    { Ent(38, IconCR, S_bar, FALSE, 38, 6),                \* bar/Icon\r
      Ent(10, IconCR, <<"!">>, FALSE, 10, NoFork),         \* !/Icon\r, no stream
      Ent(3, S_bar, <<"x">>, FALSE, 3, 6),                 \* x/bar
      Ent(40, S_bar, <<"y">>, FALSE, 40, 13),              \* y/bar, another raster
      Ent(15, <<"s", "h">>, <<"x">>, FALSE, 15, 2),        \* x/sh, too short
      Ent(6, S_bar, <<"y">>, TRUE, 6, NoFork) }            \* y/bar/, a folder

ConcSources ==
    UNION { Layouts(S) : S \in {T \in SUBSET ConcUniverse : Cardinality(T) <= MaxEntries} }

InitConc ==
    /\ palette = BuildPalette
    /\ IdleDecoder
    /\ IdleParser
    /\ source \in ConcSources
    /\ outdir = <<<<>>, <<>>>>
    /\ walk = <<NewWalk("start", 1), NewWalk("start", 1)>>

NextConc == Step(1) \/ Step(2)

SpecConc == InitConc /\ [][NextConc]_vars

\* C16: with two walks writing into one output directory, the check of a
\* name and the write of the file are one step, so the walks never both
\* write a file of the same name: no write of one replaces a file that the
\* other has written.
C16_SerializedWrites ==
    \A e1 \in Saved(1), e2 \in Saved(2) : e1.dest # e2.dest

(***************************************************************************)
(* Claims about items without resource data and about marker files that    *)
(* fail, checked under Spec                                                *)
(***************************************************************************)
\* C21: an item without resource data, its stream absent or zero bytes
\* long, is left out of the run: nothing is written for it and neither
\* counter moves, so at the end the counters add up to the items to be
\* attempted whose stream is not empty.
C21_NoResourceDataExcluded ==
    /\ \A e \in Saved(1) : Forks[e.fork].size # 0
    /\ walk[1].pc = "done" =>
           walk[1].extracted + walk[1].skipped =
               Cardinality({e \in AttemptedItems : Forks[e.fork].size # 0})

\* C28: a marker file is in processed_paths from the moment the structured
\* pass has met it and for the rest of its collection, whether it was
\* extracted, failed, or had no stream; the flat pass never hands a marker
\* file of its collection to extract_from_rsrc.
C28_ConsumedRegardless ==
    /\ \A e \in walk[1].log :
          e.pass = 2 => \A mk \in MarkersOf(e.dir) : mk.resolved # e.resolved
    /\ \A e \in walk[1].log :
          (e.pass = 1 /\ e.dir = walk[1].dir /\ walk[1].pc \in {"pass1", "save1", "pass2", "save2"})
              => e.resolved \in walk[1].processed_paths
    /\ walk[1].pc \in {"pass2", "save2"} =>
          \A mk \in MarkersOf(walk[1].dir) :
              mk.fork = NoFork => mk.resolved \in walk[1].processed_paths

\* C28 witness: a walk has ended in which a marker file failed in the
\* structured pass and the flat pass of the same collection attempted
\* another item.
C28_Witness ==
    /\ walk[1].pc = "done"
    /\ \E e1, e2 \in walk[1].log :
          /\ e1.pass = 1 /\ ~e1.ok
          /\ e2.pass = 2 /\ e2.dir = e1.dir

(***************************************************************************)
(* Claims about where parse_icns_container stops (SpecParse) and about its *)
(* termination (SpecParseLive: the loop is sequential code, so an          *)
(* iteration that can run does run)                                        *)
(***************************************************************************)
SpecParseLive == InitParse /\ [][NextParse]_vars /\ WF_vars(NextParse)

\* C22: the parser stops only where fewer than 8 bytes remain or at an
\* element whose declared length is below 8 or above the bytes that remain:
\* a buffer of well-formed elements is read to its end and every type code
\* in it is in the result, also when the last element ends exactly at the
\* end of the buffer or has an empty payload.
C22_StopCondition ==
    (ppc = "done" /\ arg.bad = 0) =>
        /\ p_pos = Len(p_data)
        /\ DOMAIN p_elements = {arg.elems[i].t : i \in DOMAIN arg.elems}

\* the payload mapped to type code t is that of an element in the buffer:
\* 4 bytes of t, a declared length of the payload's length + 8, and the
\* payload, all inside the buffer
InsideBuffer(data, t, payload) ==
    \E o \in 0..(Len(data) - HeaderLen - Len(payload)) :
        /\ SubSeq(data, o + 1, o + 4) = t
        /\ SubSeq(data, o + 5, o + 8) = BE32(Len(payload) + HeaderLen)
        /\ SubSeq(data, o + 9, o + 8 + Len(payload)) = payload

\* C26: on every buffer, whatever lengths it declares, the parser comes to
\* its end; each iteration that parses an element moves the read position
\* forward by at least 8 and not past the end of the buffer; and every
\* payload in the result has its declared length - 8 bytes and lies inside
\* the buffer.
C26_TerminationAndBounds ==
    /\ <>(ppc = "done")
    /\ [][(ppc = "loop" /\ p_pos' # p_pos) =>
              (p_pos' >= p_pos + HeaderLen /\ p_pos' <= Len(p_data))]_vars
    /\ [][(ppc = "loop" /\ ppc' = "loop") => p_pos' # p_pos]_vars
    /\ [](p_pos <= Len(p_data) /\
          \A t \in DOMAIN p_elements : InsideBuffer(p_data, t, p_elements[t]))

\* C26 witness: the first of three elements declared one byte too many, the
\* parser went on from the wrong offset and has come to its end.
C26_Witness ==
    /\ ppc = "done"
    /\ arg.kind = "over"
    /\ arg.bad = 1
    /\ Len(arg.elems) = 3
    /\ p_pos > StartOf(arg, 1)

(***************************************************************************)
(* A claim about 1-bit masks that are too short, checked under SpecDecode  *)
(***************************************************************************)
\* the ICN# records of an id that can be read and have fewer than 256 bytes
ShortMasksOf(fork, id) ==
    {j \in 1..Len(fork.icn) :
        fork.icn[j].id = id /\ ~fork.icn[j].err /\ Len(fork.icn[j].data) < 256}

\* C27: a colour raster of at least 1024 bytes whose 1-bit mask is there
\* but has fewer than 256 bytes is still extracted, as an opaque RGB raster
\* of its palette colours: in a container that has no 8-bit mask of 1024
\* bytes and an ICN# payload below 256 bytes, and in a fork whose first
\* decodable direct record has an ICN# record of its id below 256 bytes.
C27_ShortMaskOpaque ==
    /\ (/\ op = "done"
         /\ arg.fn = "extract_from_icns"
         /\ Usable(arg, T_icl8, Icl8Len)
         /\ ~Usable(arg, T_l8mk, Icl8Len)
         /\ PlanHas(arg, T_ICN)
         /\ PlanLen(arg, T_ICN) < 256) =>
            /\ result.mode = "RGB"
            /\ \A x, y \in Coord :
                  result.px[x][y] = palette[SampleByte(T_icl8, arg.k, y * 32 + x) + 1]
    /\ (/\ op = "done"
         /\ arg.fn = "extract_from_rsrc"
         /\ Readable(Forks[arg.fork])
         /\ GoodDirect(Forks[arg.fork]) # {}) =>
            LET fork == Forks[arg.fork]
                rec == fork.icl8[Least(GoodDirect(fork))]
            IN  (ShortMasksOf(fork, rec.id) # {} /\ MasksOf(fork, rec.id) = {}) =>
                    /\ result.mode = "RGB"
                    /\ \A x, y \in Coord :
                          result.px[x][y] = palette[rec.data[y * 32 + x + 1] + 1]

\* C27 witness: a raster with a 255-byte ICN# payload beside it in a
\* container was decoded to an RGB raster.
C27_Witness ==
    /\ op = "done"
    /\ arg.fn = "extract_from_icns"
    /\ Usable(arg, T_icl8, Icl8Len)
    /\ ~PlanHas(arg, T_l8mk)
    /\ PlanHas(arg, T_ICN)
    /\ PlanLen(arg, T_ICN) = 255
    /\ result.mode = "RGB"

(***************************************************************************)
(* sanitize_name called on every string of up to MaxNameLen characters     *)
(* over NameChars: SpecSanitize                                            *)
(***************************************************************************)
MaxNameLen == 5

\* letters of both cases, the three characters that are kept as they are,
\* and two that are not
NameChars == {"a", "Z", "-", "_", " ", "!", "."}

NameStrings == UNION {[1..n -> NameChars] : n \in 0..MaxNameLen}

InitSanitize ==
    /\ palette = BuildPalette
    /\ op = "call"
    /\ arg \in {[fn |-> "sanitize_name", name |-> n] : n \in NameStrings}
    /\ result = None
    /\ IdleParser
    /\ IdleWalks

CallSanitize ==
    /\ op = "call"
    /\ arg.fn = "sanitize_name"
    /\ result' = sanitize_name(arg.name)
    /\ op' = "done"
    /\ UNCHANGED <<palette, arg, p_data, p_pos, p_elements, ppc, source, outdir, walk>>

NextSanitize == CallSanitize

SpecSanitize == InitSanitize /\ [][NextSanitize]_vars

\* the characters of s that are letters, digits or '_', in their order
RECURSIVE WordChars(_)
WordChars(s) ==
    IF s = <<>> THEN <<>>
    ELSE IF IsAlnum(Head(s)) \/ Head(s) = "_"
         THEN <<Head(s)>> \o WordChars(Tail(s))
         ELSE WordChars(Tail(s))

\* s with every character that is not a letter, a digit, '-', '_' or ' '
\* replaced by '-'
Dashed(s) ==
    [i \in DOMAIN s |-> IF IsAlnum(s[i]) \/ s[i] \in {"-", "_", " "} THEN s[i] ELSE "-"]

\* C25: the result of sanitize_name holds only letters, digits, '-', '_'
\* and ' ', has no two '-' and no two spaces in a row, and neither begins
\* nor ends with '-' or ' '; a character that is not allowed counts as a
\* '-': the result is that of the input with each such character replaced
\* by '-', and the letters, digits and '_' of the input are all kept, in
\* order.
C25_Sanitization ==
    (op = "done" /\ arg.fn = "sanitize_name") =>
        /\ \A i \in DOMAIN result : IsAlnum(result[i]) \/ result[i] \in {"-", "_", " "}
        /\ \A i \in 1..(Len(result) - 1) :
              ~(result[i] = "-" /\ result[i + 1] = "-") /\ ~(result[i] = " " /\ result[i + 1] = " ")
        /\ Len(result) > 0 =>
              (result[1] \notin {"-", " "} /\ result[Len(result)] \notin {"-", " "})
        /\ result = sanitize_name(Dashed(arg.name))
        /\ WordChars(result) = WordChars(arg.name)
        /\ Len(result) <= Len(arg.name)

\* C25 witness: a name with characters that are not allowed, in a row,
\* between two letters came out with one '-' in their place.
C25_Witness ==
    /\ op = "done"
    /\ arg.fn = "sanitize_name"
    /\ arg.name = <<"a", "!", ".", "Z">>
    /\ result = <<"a", "-", "Z">>

(***************************************************************************)
(* extract_all on source trees whose folders and files have names that     *)
(* sanitize to nothing, that are 'icon' or 'icons' in some letter case, or *)
(* that collide: SpecNames                                                 *)
(***************************************************************************)
S_unnamed == <<"u", "n", "n", "a", "m", "e", "d">>

NameUniverse ==
    { Ent(38, IconCR, S_bar, FALSE, 38, 6),                         \* bar/Icon\r
      Ent(2, IconCR, <<"I", "c", "o", "n", "s">>, FALSE, 2, 6),     \* Icons/Icon\r
      Ent(41, IconCR, <<"I", "C", "O", "N">>, FALSE, 41, 6),        \* ICON/Icon\r
      Ent(42, IconCR, <<"!">>, FALSE, 42, 6),                       \* !/Icon\r
      Ent(10, IconCR, <<"!">>, FALSE, 10, NoFork),                  \* !/Icon\r, no stream
      Ent(8, <<"!">>, <<"x">>, FALSE, 8, 6),                        \* x/!
      Ent(4, <<"b", "!", "r">>, <<"x">>, FALSE, 4, 6),              \* x/b!r
      Ent(43, <<"I", "c", "o", "n">>, <<"x">>, FALSE, 43, 6),       \* x/Icon
      Ent(3, S_bar, <<"x">>, FALSE, 3, 6) }                         \* x/bar

\* the layouts of the other specifications, and a collection whose name
\* has separators inside and at its end
NameLayouts(S) == Layouts(S) \cup {{TopDir(<<"f", "-", "!", "o", " ">>, S)}}

NameSources ==
    UNION { NameLayouts(S) : S \in {T \in SUBSET NameUniverse : Cardinality(T) <= MaxEntries} }

InitNames ==
    /\ palette = BuildPalette
    /\ IdleDecoder
    /\ IdleParser
    /\ source \in NameSources
    /\ outdir = <<<<>>, <<>>>>
    /\ walk = <<NewWalk("start", 1), NewWalk("idle", 2)>>

SpecNames == InitNames /\ [][Next]_vars

(***************************************************************************)
(* Claims about the names of the files, checked under SpecNames            *)
(***************************************************************************)
\* the entry of the source tree a log entry is about
ItemOf(e) ==
    CHOOSE x \in UNION {top.entries : top \in {t \in source : t.name = e.dir}} :
        x.path = e.path

\* the name an item has before it is sanitized: that of the marker file's
\* folder in the structured pass, that of the file in the flat pass
RawName(e) == IF e.pass = 1 THEN ItemOf(e).parent ELSE ItemOf(e).name

\* C23: in both passes an icon name that sanitizes to nothing is replaced
\* by the sanitized collection name, or by the placeholder when that is
\* empty too, so that the icon part of a file name is never empty.
C23_EmptyIconName ==
    \A e \in walk[1].log :
        /\ e.icon_name # <<>>
        /\ sanitize_name(RawName(e)) = <<>> =>
               e.icon_name = IF e.collection_name # <<>> THEN e.collection_name ELSE S_unnamed

\* C24: the structured pass names an icon after the sanitized name of the
\* marker file's folder, or after the collection when that name is empty or
\* is 'icon' or 'icons' in any letter case; the flat pass names it after
\* the sanitized name of the file, whatever that is.  In both passes the
\* collection part is the sanitized name of the collection, the
\* destination is the base name or the base name with a suffix, and the
\* item is saved exactly when its fork yields a raster.
C24_NameDerivation ==
    \A e \in walk[1].log :
        LET folder == sanitize_name(ItemOf(e).parent)
            file == sanitize_name(ItemOf(e).name)
        IN  /\ e.collection_name = sanitize_name(e.dir)
            /\ e.pass = 1 =>
                   e.icon_name =
                       IF \/ folder = <<>>
                          \/ Lower(folder) \in {<<"i", "c", "o", "n">>, <<"i", "c", "o", "n", "s">>}
                       THEN e.collection_name
                       ELSE folder
            /\ (e.pass = 2 /\ file # <<>>) => e.icon_name = file
            /\ \/ e.dest = BaseName(e.collection_name, e.icon_name)
               \/ \E i \in 1..Cardinality(walk[1].log) :
                      e.dest = SuffixName(e.collection_name, e.icon_name, i)
            /\ e.ok = (extract_from_rsrc(Forks[e.fork]) # None)

\* C24 witness: a walk has ended that named the marker file of a folder
\* ICON after its collection and a flat file Icon after itself.
C24_Witness ==
    /\ walk[1].pc = "done"
    /\ \E e1, e2 \in walk[1].log :
          /\ e1.pass = 1
          /\ ItemOf(e1).parent = <<"I", "C", "O", "N">>
          /\ e1.icon_name = S_foo
          /\ e2.pass = 2
          /\ e2.icon_name = <<"I", "c", "o", "n">>

(***************************************************************************)
(* add_icons_basic.py: the reader of the file names                        *)
(***************************************************************************)
\* '--' in filename
HasDelimiter(filename) ==
    \E i \in 1..(Len(filename) - 1) : filename[i] = "-" /\ filename[i + 1] = "-"

\* where the first '--' of a file name starts
FirstDelimiter(filename) ==
    CHOOSE i \in 1..(Len(filename) - 1) :
        /\ filename[i] = "-" /\ filename[i + 1] = "-"
        /\ \A j \in 1..(i - 1) : ~(filename[j] = "-" /\ filename[j + 1] = "-")

\* filename.split('--')[0]
SplitLeft(filename) == SubSeq(filename, 1, FirstDelimiter(filename) - 1)

\* filename.split('--', 1)[1]
SplitRight(filename) == SubSeq(filename, FirstDelimiter(filename) + 2, Len(filename))

get_collection(filename) ==
    IF HasDelimiter(filename)
    THEN Replace(SplitLeft(filename), <<"-">>, <<" ">>)
    ELSE None

get_display_name(filename) ==
    LET name0 == IF HasDelimiter(filename) THEN SplitRight(filename) ELSE filename
        name1 == Replace(name0, <<".", "p", "n", "g">>, <<>>)
        name2 == Replace(Replace(name1, <<"-">>, <<" ">>), <<"_">>, <<" ">>)
        name3 == ReplaceWhile(name2, <<" ", " ">>, <<" ">>)
    IN  Strip(name3, {" "})

\* C29: in every file name written for a collection whose sanitized name is
\* not empty, the first '--' is the delimiter: what is left of it is the
\* sanitized collection name, what is right of it is the icon name, an
\* optional '-n' and '.png', and the two readers return the collection
\* name with its dashes as spaces and the display name of the icon part.
C29_ParseBack ==
    \A e \in Saved(1) :
        e.collection_name # <<>> =>
            /\ HasDelimiter(e.dest)
            /\ SplitLeft(e.dest) = e.collection_name
            /\ get_collection(e.dest) = Replace(e.collection_name, <<"-">>, <<" ">>)
            /\ \E sfx \in {<<>>} \cup {<<"-">> \o Str(i) : i \in 1..Cardinality(walk[1].log)} :
                  /\ SplitRight(e.dest) = e.icon_name \o sfx \o <<".", "p", "n", "g">>
                  /\ get_display_name(e.dest) = get_display_name(e.icon_name \o sfx)

\* C29 witness: two icons named bar were written for the collection f-o,
\* the second one with the suffix -1.
C29_Witness ==
    \E e \in Saved(1) :
        /\ e.collection_name = <<"f", "-", "o">>
        /\ e.dest = SuffixName(e.collection_name, S_bar, 1)
        /\ get_collection(e.dest) = <<"f", " ", "o">>
        /\ get_display_name(e.dest) = <<"b", "a", "r", " ", "1">>

(***************************************************************************)
(* extract_icons.py: the earlier extractor, one walk over a tree of icon   *)
(* folders: SpecLegacy                                                     *)
(***************************************************************************)
\* extract_icons.sanitize_name: lower case, every character that is not
\* alphanumeric, '-' or '_' becomes '-', dashes stripped from both ends
legacy_sanitize_name(name) ==
    LET lowered == Lower(name)
    IN  Strip([i \in DOMAIN lowered |->
                  IF IsAlnum(lowered[i]) \/ lowered[i] \in {"-", "_"}
                  THEN lowered[i] ELSE "-"],
              {"-"})

\* a path that rglob('*') yields: its name, the name of the folder it is
\* in, whether it is a folder, and the resource fork of its Icon\r file
LegacyEnt(name, parent, isdir, fork) ==
    [name |-> name, parent |-> parent, isdir |-> isdir, fork |-> fork]

LegacyUniverse ==
    { LegacyEnt(S_bar, S_foo, TRUE, 6),                     \* foo/bar/, one raster
      LegacyEnt(<<"B", "a", "r">>, <<"F", "o", "o">>, TRUE, 1), \* Foo/Bar/, raster and mask
      LegacyEnt(<<"t", "w">>, S_foo, TRUE, 11),             \* foo/tw/, a short raster and two rasters
      LegacyEnt(<<"u", "r">>, S_foo, TRUE, 12),             \* foo/ur/, an unreadable raster and a raster
      LegacyEnt(<<"m">>, S_foo, TRUE, 4),                   \* foo/m/, not a resource file
      LegacyEnt(<<"n">>, S_foo, TRUE, NoFork),              \* foo/n/, no Icon\r stream
      LegacyEnt(<<"f">>, S_foo, FALSE, NoFork),             \* foo/f, a file
      LegacyEnt(<<"z">>, S_foo, TRUE, 3),                   \* foo/z/, a zero-byte stream
      LegacyEnt(<<"c">>, S_foo, TRUE, 7) }                  \* foo/c/, a container and no icl8

LegacySources == {T \in SUBSET LegacyUniverse : Cardinality(T) <= MaxEntries}

\* the locals of extract_icons
NewLegacyWalk(transparent) ==
    [pc |-> "start", transparent |-> transparent, iter |-> {}, category |-> <<>>,
     icon_name |-> <<>>, records |-> <<>>, icn_masks |-> <<>>,
     extracted |-> -1, no_mask |-> -1, errors |-> -1, ret |-> -1]

InitLegacy ==
    /\ palette = BuildPalette
    /\ IdleDecoder
    /\ IdleParser
    /\ source \in LegacySources
    /\ outdir = <<<<>>, <<>>>>
    /\ walk \in {NewLegacyWalk(transparent) : transparent \in BOOLEAN}

\* lines 129-136
LegacyStart ==
    /\ walk.pc = "start"
    /\ walk' = [walk EXCEPT !.pc = "dirs", !.iter = source,
                            !.extracted = 0, !.no_mask = 0, !.errors = 0]
    /\ UNCHANGED <<source, outdir, Others>>

\* lines 136-154: not a folder, no stream, a zero-byte stream, no icl8 type
LegacySkip ==
    /\ walk.pc = "dirs"
    /\ \E icon_dir \in walk.iter :
          /\ \/ ~icon_dir.isdir
             \/ icon_dir.fork = NoFork
             \/ /\ icon_dir.isdir
                /\ icon_dir.fork # NoFork
                /\ \/ Forks[icon_dir.fork].size = 0
                   \/ /\ ~Forks[icon_dir.fork].malformed
                      /\ Len(Forks[icon_dir.fork].icl8) = 0
          /\ walk' = [walk EXCEPT !.iter = @ \ {icon_dir}]
    /\ UNCHANGED <<source, outdir, Others>>

\* lines 146-151, 195-197: ResourceFile raises
LegacyError ==
    /\ walk.pc = "dirs"
    /\ \E icon_dir \in walk.iter :
          /\ icon_dir.isdir
          /\ icon_dir.fork # NoFork
          /\ Forks[icon_dir.fork].size # 0
          /\ Forks[icon_dir.fork].malformed
          /\ walk' = [walk EXCEPT !.iter = @ \ {icon_dir}, !.errors = @ + 1]
    /\ UNCHANGED <<source, outdir, Others>>

\* lines 156-163: the ICN# records that can be read, when transparent
LegacyMasks(fork, transparent) ==
    IF transparent THEN SelectSeq(fork.icn, LAMBDA r : ~r.err) ELSE <<>>

\* lines 136-169: a fork with icl8 records is opened
LegacyOpen ==
    /\ walk.pc = "dirs"
    /\ \E icon_dir \in walk.iter :
          /\ icon_dir.isdir
          /\ icon_dir.fork # NoFork
          /\ Forks[icon_dir.fork].size # 0
          /\ ~Forks[icon_dir.fork].malformed
          /\ Len(Forks[icon_dir.fork].icl8) > 0
          /\ walk' = [walk EXCEPT
                 !.pc = "records",
                 !.iter = @ \ {icon_dir},
                 !.icn_masks = LegacyMasks(Forks[icon_dir.fork], walk.transparent),
                 !.category = legacy_sanitize_name(icon_dir.parent),
                 !.icon_name = legacy_sanitize_name(icon_dir.name),
                 !.records = Forks[icon_dir.fork].icl8]
    /\ UNCHANGED <<source, outdir, Others>>

\* lines 169-172, 191-193: res.data raises
LegacyRecordError ==
    /\ walk.pc = "records"
    /\ walk.records # <<>>
    /\ Head(walk.records).err
    /\ walk' = [walk EXCEPT !.records = Tail(@), !.errors = @ + 1]
    /\ UNCHANGED <<source, outdir, Others>>

\* lines 169-175
LegacyRecordShort ==
    /\ walk.pc = "records"
    /\ walk.records # <<>>
    /\ ~Head(walk.records).err
    /\ Len(Head(walk.records).data) < Icl8Len
    /\ walk' = [walk EXCEPT !.records = Tail(@)]
    /\ UNCHANGED <<source, outdir, Others>>

\* lines 169-189: the record is decoded and saved over whatever is there
LegacySave ==
    /\ walk.pc = "records"
    /\ walk.records # <<>>
    /\ ~Head(walk.records).err
    /\ Len(Head(walk.records).data) >= Icl8Len
    /\ LET res == Head(walk.records)
           same_id == SelectSeq(walk.icn_masks, LAMBDA r : r.id = res.id)
           mask == IF walk.transparent /\ same_id # <<>>
                   THEN extract_mask_from_icn(same_id[1].data)
                   ELSE None
           img == extract_icl8(res.data, mask)
           filename == BaseName(walk.category, walk.icon_name)
       IN  /\ img # None
           /\ outdir' = [outdir EXCEPT ![1] = Save(@, filename, img)]
           /\ walk' = [walk EXCEPT
                  !.records = Tail(@),
                  !.no_mask = IF walk.transparent /\ same_id = <<>> THEN @ + 1 ELSE @,
                  !.extracted = @ + 1]
    /\ UNCHANGED <<source, Others>>

\* line 169: no record is left
LegacyEndDir ==
    /\ walk.pc = "records"
    /\ walk.records = <<>>
    /\ walk' = [walk EXCEPT !.pc = "dirs"]
    /\ UNCHANGED <<source, outdir, Others>>

\* lines 198-205
LegacyFinish ==
    /\ walk.pc = "dirs"
    /\ walk.iter = {}
    /\ walk' = [walk EXCEPT !.pc = "done", !.ret = walk.extracted]
    /\ UNCHANGED <<source, outdir, Others>>

NextLegacy ==
    \/ LegacyStart
    \/ LegacySkip
    \/ LegacyError
    \/ LegacyOpen
    \/ LegacyRecordError
    \/ LegacyRecordShort
    \/ LegacySave
    \/ LegacyEndDir
    \/ LegacyFinish

SpecLegacy == InitLegacy /\ [][NextLegacy]_vars

(***************************************************************************)
(* Claims about extract_icons, checked under SpecLegacy                    *)
(***************************************************************************)
\* C30: when extract_icons returns, the count it returns is the number of
\* files in the output directory, which was empty at the start.
C30_CountEqualsFiles ==
    walk.pc = "done" => walk.ret = Cardinality(DOMAIN outdir[1])
====
